---- MODULE Spec2Model ----
(***************************************************************************)
(* Model of the rewriting proxy in src/custom-proxy/index.js: the URL      *)
(* codec (encodeUrl, decodeUrl, isValidUrl), the upstream fetcher          *)
(* (fetchWithRetry), the response cache (cache, manageCacheSize) and the   *)
(* GET /go, POST /go, /health and /clear-cache handlers.                   *)
(*                                                                         *)
(* Strings are sequences of code points; byte buffers are sequences of     *)
(* numbers in 0..255.                                                      *)
(***************************************************************************)
EXTENDS Integers, Sequences, FiniteSets, TLC

\* ------------------------------------------------------------------------
\* Characters
\* ------------------------------------------------------------------------

\* The printable ASCII characters, code points 32..126, in order (the grave
\* accent, 96, by name: the lexer takes no such string).
Printable ==
  << " ", "!", "\"", "#", "$", "%", "&", "'", "(", ")", "*", "+", ",", "-", ".", "/",
     "0", "1", "2", "3", "4", "5", "6", "7", "8", "9", ":", ";", "<", "=", ">", "?",
     "@", "A", "B", "C", "D", "E", "F", "G", "H", "I", "J", "K", "L", "M", "N", "O",
     "P", "Q", "R", "S", "T", "U", "V", "W", "X", "Y", "Z", "[", "\\", "]", "^", "_",
     "grave", "a", "b", "c", "d", "e", "f", "g", "h", "i", "j", "k", "l", "m", "n", "o",
     "p", "q", "r", "s", "t", "u", "v", "w", "x", "y", "z", "{", "|", "}", "~" >>

\* Code point of a printable ASCII character.
Ord(c) == 31 + (CHOOSE i \in 1..95 : Printable[i] = c)

\* A string literal: << "h", "i" >> becomes its sequence of code points.
Str(chars) == [i \in 1..Len(chars) |-> Ord(chars[i])]

RECURSIVE Concat(_)
\* Concatenation of a sequence of strings.
Concat(parts) ==
  IF parts = << >> THEN << >> ELSE Head(parts) \o Concat(Tail(parts))

IsDigit(c) == c \in 48..57
IsAlpha(c) == c \in 65..90 \/ c \in 97..122
IsHex(c) == IsDigit(c) \/ c \in 65..70 \/ c \in 97..102
HexVal(c) == IF IsDigit(c) THEN c - 48 ELSE IF c \in 65..70 THEN c - 55 ELSE c - 87
ToLower(c) == IF c \in 65..90 THEN c + 32 ELSE c

\* U+FFFD, what a UTF-8 decoder puts in place of a byte it cannot decode.
Replacement == 65533

\* ------------------------------------------------------------------------
\* UTF-8 (Buffer.from(string) and buffer.toString('utf-8')), for code points
\* below U+0800: one- and two-byte sequences.
\* ------------------------------------------------------------------------

RECURSIVE Utf8Encode(_)
Utf8Encode(s) ==
  IF s = << >> THEN << >>
  ELSE LET c == Head(s) IN
       (IF c < 128 THEN << c >> ELSE << 192 + (c \div 64), 128 + (c % 64) >>)
         \o Utf8Encode(Tail(s))

RECURSIVE Utf8Decode(_)
Utf8Decode(b) ==
  IF b = << >> THEN << >>
  ELSE LET x == Head(b) IN
       IF x < 128 THEN << x >> \o Utf8Decode(Tail(b))
       ELSE IF x \in 194..223 /\ Len(b) >= 2 /\ b[2] \in 128..191
            THEN << (x - 192) * 64 + (b[2] - 128) >> \o Utf8Decode(SubSeq(b, 3, Len(b)))
       ELSE << Replacement >> \o Utf8Decode(Tail(b))

\* ------------------------------------------------------------------------
\* Base64 (Buffer's 'base64' encoding)
\* ------------------------------------------------------------------------

PadChar == Ord("=")

\* The character of a sextet 0..63 in the standard alphabet.
B64Char(n) ==
  IF n < 26 THEN 65 + n
  ELSE IF n < 52 THEN 97 + (n - 26)
  ELSE IF n < 62 THEN 48 + (n - 52)
  ELSE IF n = 62 THEN Ord("+") ELSE Ord("/")

\* The sextet of a character, -1 when the character is outside the alphabet.
\* The decoder also accepts the URL-safe characters '-' and '_'.
Unbase64(c) ==
  IF c \in 65..90 THEN c - 65
  ELSE IF c \in 97..122 THEN c - 97 + 26
  ELSE IF c \in 48..57 THEN c - 48 + 52
  ELSE IF c = Ord("+") \/ c = Ord("-") THEN 62
  ELSE IF c = Ord("/") \/ c = Ord("_") THEN 63
  ELSE -1

RECURSIVE Base64Encode(_)
\* buffer.toString('base64'): three bytes to four characters, '=' padding.
Base64Encode(b) ==
  IF Len(b) = 0 THEN << >>
  ELSE IF Len(b) = 1 THEN
    << B64Char(b[1] \div 4), B64Char((b[1] % 4) * 16), PadChar, PadChar >>
  ELSE IF Len(b) = 2 THEN
    << B64Char(b[1] \div 4), B64Char((b[1] % 4) * 16 + (b[2] \div 16)),
       B64Char((b[2] % 16) * 4), PadChar >>
  ELSE
    << B64Char(b[1] \div 4), B64Char((b[1] % 4) * 16 + (b[2] \div 16)),
       B64Char((b[2] % 16) * 4 + (b[3] \div 64)), B64Char(b[3] % 64) >>
      \o Base64Encode(SubSeq(b, 4, Len(b)))

RECURSIVE Sextets(_)
\* The sextets the decoder reads: it stops at the first '=' and skips every
\* other character that is outside the alphabet.
Sextets(chars) ==
  IF chars = << >> \/ Head(chars) = PadChar THEN << >>
  ELSE IF Unbase64(Head(chars)) < 0 THEN Sextets(Tail(chars))
  ELSE << Unbase64(Head(chars)) >> \o Sextets(Tail(chars))

RECURSIVE SextetsToBytes(_)
\* Four sextets to three bytes; a trailing group of two or three sextets gives
\* one or two bytes, a trailing single sextet gives none.
SextetsToBytes(x) ==
  IF Len(x) < 2 THEN << >>
  ELSE IF Len(x) = 2 THEN << x[1] * 4 + (x[2] \div 16) >>
  ELSE IF Len(x) = 3 THEN
    << x[1] * 4 + (x[2] \div 16), (x[2] % 16) * 16 + (x[3] \div 4) >>
  ELSE
    << x[1] * 4 + (x[2] \div 16), (x[2] % 16) * 16 + (x[3] \div 4),
       (x[3] % 4) * 64 + x[4] >>
      \o SextetsToBytes(SubSeq(x, 5, Len(x)))

\* Buffer.from(string, 'base64'): never throws.
Base64Decode(chars) == SextetsToBytes(Sextets(chars))

\* ------------------------------------------------------------------------
\* decodeURIComponent
\* ------------------------------------------------------------------------

Thrown == [ok |-> FALSE, val |-> << >>]
Returned(v) == [ok |-> TRUE, val |-> v]

\* s starts with '%' and two hexadecimal digits.
HasEscape(s) == Len(s) >= 3 /\ s[1] = Ord("%") /\ IsHex(s[2]) /\ IsHex(s[3])
EscapeByte(s) == HexVal(s[2]) * 16 + HexVal(s[3])

RECURSIVE DecodeURIComponent(_)
\* Every %XX escape is replaced by the character whose UTF-8 encoding the
\* escapes spell; a '%' that starts no escape, or escapes that are not valid
\* UTF-8, throw URIError. (Escapes of three- and four-byte sequences are not
\* decoded here: they throw.)
DecodeURIComponent(s) ==
  IF s = << >> THEN Returned(<< >>)
  ELSE IF Head(s) # Ord("%") THEN
    LET rest == DecodeURIComponent(Tail(s)) IN
    IF rest.ok THEN Returned(<< Head(s) >> \o rest.val) ELSE Thrown
  ELSE IF ~HasEscape(s) THEN Thrown
  ELSE LET b == EscapeByte(s)
           after == SubSeq(s, 4, Len(s))
       IN IF b < 128 THEN
            LET rest == DecodeURIComponent(after) IN
            IF rest.ok THEN Returned(<< b >> \o rest.val) ELSE Thrown
          ELSE IF b \in 194..223 /\ HasEscape(after) /\ EscapeByte(after) \in 128..191 THEN
            LET rest == DecodeURIComponent(SubSeq(after, 4, Len(after))) IN
            IF rest.ok
            THEN Returned(<< (b - 192) * 64 + (EscapeByte(after) - 128) >> \o rest.val)
            ELSE Thrown
          ELSE Thrown

\* ------------------------------------------------------------------------
\* The URL codec
\* ------------------------------------------------------------------------

\* encodeUrl(url): Buffer.from(url).toString('base64').
encodeUrl(url) == Base64Encode(Utf8Encode(url))

\* decodeUrl(encoded): decodeURIComponent(Buffer.from(encoded, 'base64')
\* .toString('utf-8')); a URIError is rethrown as 'Invalid URL encoding'.
decodeUrl(encoded) == DecodeURIComponent(Utf8Decode(Base64Decode(encoded)))

\* ------------------------------------------------------------------------
\* new URL(string), as far as isValidUrl needs it: does the string parse as an
\* absolute URL, and with which scheme. Hosts are checked as names (letters,
\* digits, '.', '-'); IPv6 literals, numeric hosts and IDNA are not modelled.
\* ------------------------------------------------------------------------

RECURSIVE TrimLeft(_)
TrimLeft(s) == IF s # << >> /\ Head(s) <= 32 THEN TrimLeft(Tail(s)) ELSE s

RECURSIVE TrimRight(_)
TrimRight(s) ==
  IF s # << >> /\ s[Len(s)] <= 32 THEN TrimRight(SubSeq(s, 1, Len(s) - 1)) ELSE s

\* Leading and trailing C0 control characters and spaces are removed, then
\* every tab and newline.
UrlInput(s) == SelectSeq(TrimRight(TrimLeft(s)), LAMBDA c : c \notin {9, 10, 13})

IsSchemeChar(c) == IsAlpha(c) \/ IsDigit(c) \/ c \in {Ord("+"), Ord("-"), Ord(".")}

\* Position of the ':' that ends the scheme, 0 when the string has no scheme.
SchemeEnd(s) ==
  IF s = << >> \/ ~IsAlpha(s[1]) THEN 0
  ELSE LET colons == {i \in 2..Len(s) : s[i] = Ord(":")}
       IN IF colons = {} THEN 0
          ELSE LET e == CHOOSE i \in colons : \A j \in colons : i <= j
               IN IF \A j \in 2..(e - 1) : IsSchemeChar(s[j]) THEN e ELSE 0

SchemeOf(s) == [i \in 1..(SchemeEnd(s) - 1) |-> ToLower(s[i])]

RECURSIVE SkipSlashes(_)
\* After a special scheme every '/' and '\' before the authority is skipped.
SkipSlashes(s) ==
  IF s # << >> /\ Head(s) \in {Ord("/"), Ord("\\")} THEN SkipSlashes(Tail(s)) ELSE s

RECURSIVE UpTo(_, _)
\* The prefix of s before its first character in stops.
UpTo(s, stops) ==
  IF s = << >> \/ Head(s) \in stops THEN << >> ELSE << Head(s) >> \o UpTo(Tail(s), stops)

RECURSIVE AfterLast(_, _)
\* What follows the last c in s; s itself when c does not occur.
AfterLast(s, c) ==
  IF \E i \in 1..Len(s) : s[i] = c THEN AfterLast(Tail(s), c) ELSE s

IsHostChar(c) == IsAlpha(c) \/ IsDigit(c) \/ c \in {Ord("."), Ord("-")}

RECURSIVE DecimalValue(_)
DecimalValue(d) ==
  IF d = << >> THEN 0 ELSE DecimalValue(SubSeq(d, 1, Len(d) - 1)) * 10 + (d[Len(d)] - 48)

\* host[:port] of a special URL: the host is not empty and holds no forbidden
\* code point; the port is a number up to 65535.
HostPortOk(hp) ==
  LET host == UpTo(hp, {Ord(":")})
      port == IF Len(host) = Len(hp) THEN << >> ELSE SubSeq(hp, Len(host) + 2, Len(hp))
  IN /\ host # << >>
     /\ \A i \in 1..Len(host) : IsHostChar(host[i])
     /\ \A i \in 1..Len(port) : IsDigit(port[i])
     /\ Len(port) <= 5 /\ DecimalValue(port) <= 65535

HttpScheme == Str(<< "h", "t", "t", "p" >>)
HttpsScheme == Str(<< "h", "t", "t", "p", "s" >>)

\* isValidUrl(string): new URL(string) does not throw and its protocol is
\* 'http:' or 'https:'.
isValidUrl(string) ==
  LET s == UrlInput(string)
      e == SchemeEnd(s)
  IN /\ e > 0
     /\ SchemeOf(s) \in {HttpScheme, HttpsScheme}
     /\ LET rest == SkipSlashes(SubSeq(s, e + 1, Len(s)))
            authority == UpTo(rest, {Ord("/"), Ord("\\"), Ord("?"), Ord("#")})
        IN HostPortOk(AfterLast(authority, Ord("@")))

\* ------------------------------------------------------------------------
\* new URL(input, base).href, as the rewriter uses it: the WHATWG parser for
\* special schemes (authority, path with dot segments, query, fragment, the
\* percent-encode sets) and for references relative to an http(s) base. Not
\* modelled: file: URLs, IPv4 and IPv6 hosts, IDNA, percent-encoded dot
\* segments, and the normalisation of URLs of non-special schemes, which are
\* kept as written after the lower-cased scheme.
\* ------------------------------------------------------------------------

StartsWith(s, prefix) == Len(s) >= Len(prefix) /\ SubSeq(s, 1, Len(prefix)) = prefix

\* What follows position n of s.
Drop(s, n) == SubSeq(s, n + 1, Len(s))

Slashes == {Ord("/"), Ord("\\")}

SpecialSchemes ==
  { HttpScheme, HttpsScheme, Str(<< "f", "t", "p" >>), Str(<< "w", "s" >>), Str(<< "w", "s", "s" >>) }

\* The default port of a special scheme, as the serialiser writes ports.
DefaultPort(scheme) ==
  IF scheme = HttpScheme \/ scheme = Str(<< "w", "s" >>) THEN Str(<< "8", "0" >>)
  ELSE IF scheme = HttpsScheme \/ scheme = Str(<< "w", "s", "s" >>) THEN Str(<< "4", "4", "3" >>)
  ELSE Str(<< "2", "1" >>)

RECURSIVE PercentBytes(_)
\* %XX, in upper-case hexadecimal digits, for every byte.
PercentBytes(bytes) ==
  LET HexDigit(n) == IF n < 10 THEN 48 + n ELSE 55 + n
  IN IF bytes = << >> THEN << >>
     ELSE << Ord("%"), HexDigit(Head(bytes) \div 16), HexDigit(Head(bytes) % 16) >>
            \o PercentBytes(Tail(bytes))

\* The percent-encode sets: C0 controls and everything above '~', then the
\* characters of the fragment, of the query of a special URL, and of the path.
InEncodeSet(c, set) ==
  \/ c < 32 \/ c > 126
  \/ set = "fragment" /\ c \in {32, 34, 60, 62, 96}
  \/ set = "special-query" /\ c \in {32, 34, 35, 39, 60, 62}
  \/ set = "path" /\ c \in {32, 34, 35, 60, 62, 63, 96, 123, 125}

\* s with every character of the set replaced by the escapes of its UTF-8
\* bytes.
PercentEncode(s, set) ==
  Concat([i \in 1..Len(s) |->
            IF InEncodeSet(s[i], set) THEN PercentBytes(Utf8Encode(<< s[i] >>))
            ELSE << s[i] >>])

RECURSIVE StripZeros(_)
StripZeros(d) == IF Len(d) > 1 /\ Head(d) = 48 THEN StripZeros(Tail(d)) ELSE d

\* host[:port] as the serialiser writes it: the host in lower case, the port
\* without leading zeros, and no port when it is the default of the scheme.
HostPort(hp, scheme) ==
  LET host == UpTo(hp, {Ord(":")})
      port == IF Len(host) = Len(hp) THEN << >> ELSE StripZeros(Drop(hp, Len(host) + 1))
  IN [i \in 1..Len(host) |-> ToLower(host[i])]
       \o (IF port = << >> \/ port = DefaultPort(scheme) THEN << >> ELSE << Ord(":") >> \o port)

RECURSIVE Segments(_)
\* The pieces of a path between its '/' and '\'.
Segments(s) ==
  LET seg == UpTo(s, Slashes)
  IN IF Len(seg) = Len(s) THEN << seg >> ELSE << seg >> \o Segments(Drop(s, Len(seg) + 1))

\* Shorten a path: remove its last segment, if any.
Shorten(path) == IF path = << >> THEN path ELSE SubSeq(path, 1, Len(path) - 1)

RECURSIVE PathState(_, _)
\* The path state: the segments of the input are appended to the path; '..'
\* shortens it and '.' is skipped, each leaving an empty last segment when it
\* ends the input.
PathState(path, segs) ==
  IF segs = << >> THEN path
  ELSE LET seg == Head(segs)
           last == Len(segs) = 1
           next == IF seg = << Ord("."), Ord(".") >>
                   THEN (IF last THEN Append(Shorten(path), << >>) ELSE Shorten(path))
                   ELSE IF seg = << Ord(".") >>
                   THEN (IF last THEN Append(path, << >>) ELSE path)
                   ELSE Append(path, PercentEncode(seg, "path"))
       IN PathState(next, Tail(segs))

RECURSIVE JoinPath(_)
JoinPath(path) ==
  IF path = << >> THEN << >> ELSE << Ord("/") >> \o Head(path) \o JoinPath(Tail(path))

NoUrl ==
  [ok |-> FALSE, scheme |-> << >>, special |-> FALSE, authority |-> << >>, path |-> << >>,
   opaque |-> << >>, query |-> << >>, fragment |-> << >>]

\* The path, query and fragment of a special URL from what follows the
\* authority (or the base's authority), appended to the given path.
Tail3(url, path, rest) ==
  LET Query(queryPart) ==
        IF queryPart = << >> THEN << >>
        ELSE << Ord("?") >> \o PercentEncode(Tail(queryPart), "special-query")
      Fragment(fragPart) ==
        IF fragPart = << >> THEN << >>
        ELSE << Ord("#") >> \o PercentEncode(Tail(fragPart), "fragment")
      \* The path ends at the first '?' or '#', the query at the first '#'.
      Parts(pathPart, beforeFragment) ==
        [url EXCEPT !.path = PathState(path, Segments(pathPart)),
                    !.query = Query(Drop(beforeFragment, Len(pathPart))),
                    !.fragment = Fragment(Drop(rest, Len(beforeFragment)))]
  IN Parts(UpTo(rest, {Ord("?"), Ord("#")}), UpTo(rest, {Ord("#")}))

\* A special URL from its scheme and what follows the slashes: the authority
\* (credentials kept as written), then path, query and fragment.
WithAuthority(scheme, afterSlashes) ==
  LET authority == UpTo(afterSlashes, {Ord("/"), Ord("\\"), Ord("?"), Ord("#")})
      hostPort == AfterLast(authority, Ord("@"))
      userinfo == SubSeq(authority, 1, Len(authority) - Len(hostPort))
      rest == Drop(afterSlashes, Len(authority))
  IN IF ~HostPortOk(hostPort) THEN NoUrl
     ELSE Tail3([NoUrl EXCEPT !.ok = TRUE, !.scheme = scheme, !.special = TRUE,
                              !.authority = userinfo \o HostPort(hostPort, scheme)],
                << >>,
                IF rest # << >> /\ Head(rest) \in Slashes THEN Tail(rest) ELSE rest)

\* A reference without a scheme of its own, against a special base.
Relative(ref, base) ==
  LET \* A reference that is only a query keeps the path of the base.
      QueryOnly(t) == [t EXCEPT !.path = base.path,
                                !.query = IF t.query = << >> THEN << Ord("?") >> ELSE t.query]
      Resolved(t) == IF Head(ref) = Ord("?") THEN QueryOnly(t) ELSE t
  IN IF ref = << >> THEN [base EXCEPT !.fragment = << >>]
     ELSE IF Len(ref) >= 2 /\ ref[1] \in Slashes /\ ref[2] \in Slashes
     THEN WithAuthority(base.scheme, SkipSlashes(ref))
     ELSE IF Head(ref) = Ord("#") THEN
       [base EXCEPT !.fragment = << Ord("#") >> \o PercentEncode(Tail(ref), "fragment")]
     ELSE \* From the root for '/x', from the directory of the base for 'x'.
       Resolved(Tail3([base EXCEPT !.query = << >>, !.fragment = << >>],
                      IF Head(ref) \in Slashes \cup {Ord("?")} THEN << >> ELSE Shorten(base.path),
                      IF Head(ref) \in Slashes THEN Tail(ref) ELSE ref))

\* new URL(input, base): base is a parsed URL, or NoUrl for new URL(input).
ParseUrl(input, base) ==
  LET s == UrlInput(input)
      e == SchemeEnd(s)
      scheme == SchemeOf(s)
      rest == Drop(s, e)
      \* 'http:x' against a base of the same special scheme is relative too.
      sameScheme == /\ e > 0 /\ base.ok /\ base.special /\ base.scheme = scheme
                    /\ ~(Len(rest) >= 2 /\ rest[1] \in Slashes /\ rest[2] \in Slashes)
  IN IF e = 0 \/ sameScheme
     THEN (IF base.ok /\ base.special THEN Relative(IF e = 0 THEN s ELSE rest, base) ELSE NoUrl)
     ELSE IF scheme \in SpecialSchemes THEN WithAuthority(scheme, SkipSlashes(rest))
     ELSE [NoUrl EXCEPT !.ok = TRUE, !.scheme = scheme, !.opaque = rest]

\* url.href
Href(url) ==
  IF url.special
  THEN Concat(<< url.scheme, << Ord(":"), Ord("/"), Ord("/") >>, url.authority, JoinPath(url.path),
                 url.query, url.fragment >>)
  ELSE Concat(<< url.scheme, << Ord(":") >>, url.opaque >>)

\* url.protocol
Protocol(url) == url.scheme \o << Ord(":") >>

\* ------------------------------------------------------------------------
\* The rewriter. A document is the DOM that JSDOM parsed: the children of
\* <head> and of <body> in document order, each an element with its tag, its
\* attributes (name to value) and its text. The text of a script is recorded
\* as what the script is and the URL its source carries.
\* ------------------------------------------------------------------------

\* index.js:13, process.env.PROXY_BASE_URL; the runs use a short one.
PROXY_BASE_URL == Str(<< "h", "t", "t", "p", "s", ":", "/", "/", "p" >>)

NoText == [kind |-> "none", url |-> << >>]
Element(tag, attrs) == [tag |-> tag, attrs |-> attrs, text |-> NoText]
NoAttrs == [a \in {} |-> << >>]

HasAttr(el, a) == a \in DOMAIN el.attrs

urlAttributes ==
  { "href", "src", "srcset", "data-src", "data-href", "action", "poster", "background",
    "cite", "formaction", "icon", "manifest", "archive", "code", "codebase", "usemap" }

\* `${proxyBaseUrl}/go?url=${encodedUrl}`
Proxied(absoluteUrl, proxyBaseUrl) ==
  Concat(<< proxyBaseUrl, Str(<< "/", "g", "o", "?", "u", "r", "l", "=" >>), encodeUrl(absoluteUrl) >>)

\* The absolute URL of a reference, as every pass computes it: the target's
\* protocol before a reference that starts with '//', and new URL(value,
\* targetUrl).href otherwise. Thrown when new URL throws.
AbsoluteUrl(value, targetUrl) ==
  LET HrefOf(url) == IF url.ok THEN Returned(Href(url)) ELSE Thrown
      Against(base) ==
        IF ~base.ok THEN Thrown
        ELSE IF StartsWith(value, << 47, 47 >>) THEN Returned(Protocol(base) \o value)
        ELSE HrefOf(ParseUrl(value, base))
  IN Against(ParseUrl(targetUrl, NoUrl))

\* absoluteUrl.startsWith('http')
IsProxiable(absoluteUrl) == StartsWith(absoluteUrl, HttpScheme)

DataPrefix == Str(<< "d", "a", "t", "a", ":" >>)
JavascriptPrefix == Str(<< "j", "a", "v", "a", "s", "c", "r", "i", "p", "t", ":" >>)
SkippedPrefixes == { DataPrefix, JavascriptPrefix, Str(<< "m", "a", "i", "l", "t", "o", ":" >>), Str(<< "b", "l", "o", "b", ":" >>), Str(<< "#" >>) }

\* The value of a URL attribute after the attribute pass.
RewriteValue(value, targetUrl, proxyBaseUrl) ==
  IF value = << >> \/ \E prefix \in SkippedPrefixes : StartsWith(value, prefix) THEN value
  ELSE LET With(absoluteUrl) ==
             IF absoluteUrl.ok /\ IsProxiable(absoluteUrl.val)
             THEN Proxied(absoluteUrl.val, proxyBaseUrl)
             ELSE value
       IN With(AbsoluteUrl(value, targetUrl))

\* The attribute pass: every attribute of urlAttributes on every element.
RewriteAttributes(el, targetUrl, proxyBaseUrl) ==
  [el EXCEPT !.attrs = [a \in DOMAIN el.attrs |->
     IF a \in urlAttributes THEN RewriteValue(el.attrs[a], targetUrl, proxyBaseUrl)
     ELSE el.attrs[a]]]

\* White space as String.prototype.trim and \s take it.
IsSpace(c) == c \in {9, 10, 11, 12, 13, 32, 160}

RECURSIVE JsTrimLeft(_)
JsTrimLeft(s) == IF s # << >> /\ IsSpace(Head(s)) THEN JsTrimLeft(Tail(s)) ELSE s

RECURSIVE JsTrimRight(_)
JsTrimRight(s) ==
  IF s # << >> /\ IsSpace(s[Len(s)]) THEN JsTrimRight(SubSeq(s, 1, Len(s) - 1)) ELSE s

JsTrim(s) == JsTrimRight(JsTrimLeft(s))

RECURSIVE SplitOn(_, _)
\* s.split(c)
SplitOn(s, c) ==
  LET piece == UpTo(s, {c})
  IN IF Len(piece) = Len(s) THEN << piece >>
     ELSE << piece >> \o SplitOn(Drop(s, Len(piece) + 1), c)

RECURSIVE Words(_)
\* s.split(/\s+/)
Words(s) ==
  LET word == UpTo(s, {9, 10, 11, 12, 13, 32, 160})
  IN IF Len(word) = Len(s) THEN << word >>
     ELSE << word >> \o Words(JsTrimLeft(Drop(s, Len(word))))

RECURSIVE Join(_, _)
\* parts.join(sep)
Join(parts, sep) ==
  IF parts = << >> THEN << >>
  ELSE IF Len(parts) = 1 THEN parts[1]
  ELSE parts[1] \o sep \o Join(Tail(parts), sep)

\* One candidate of a srcset after the srcset pass.
RewriteCandidate(part, targetUrl, proxyBaseUrl) ==
  LET words == Words(JsTrim(part))
      url == words[1]
      descriptor == IF Len(words) >= 2 THEN words[2] ELSE << >>
  IN IF url # << >> /\ ~StartsWith(url, DataPrefix) /\ ~StartsWith(url, JavascriptPrefix)
     THEN LET With(absoluteUrl) ==
                IF absoluteUrl.ok /\ IsProxiable(absoluteUrl.val)
                THEN JsTrim(Concat(<< Proxied(absoluteUrl.val, proxyBaseUrl), << 32 >>, descriptor >>))
                ELSE part
          IN With(AbsoluteUrl(url, targetUrl))
     ELSE part

\* The srcset pass on one value: split on commas, rewrite, join with ', '.
RewriteSrcsetValue(srcset, targetUrl, proxyBaseUrl) ==
  LET parts == SplitOn(srcset, Ord(","))
  IN Join([i \in 1..Len(parts) |-> RewriteCandidate(parts[i], targetUrl, proxyBaseUrl)],
          << Ord(","), 32 >>)

\* The srcset pass: every element with a srcset that is not empty.
RewriteSrcset(el, targetUrl, proxyBaseUrl) ==
  IF HasAttr(el, "srcset") /\ el.attrs["srcset"] # << >>
  THEN [el EXCEPT !.attrs["srcset"] =
          RewriteSrcsetValue(el.attrs["srcset"], targetUrl, proxyBaseUrl)]
  ELSE el

\* The match of /url\(['"]?(.*?)['"]?\)/i at the start of s: its length (0
\* when there is none) and what the group captured. The group is lazy: it ends
\* at the first place where an optional quote and the ')' follow; '.' takes no
\* line terminator.
UrlMatch(s) ==
  LET Quotes == {34, 39}
      LineTerminators == {10, 13, 8232, 8233}
      UrlOpen == /\ Len(s) >= 4
                 /\ << ToLower(s[1]), ToLower(s[2]), ToLower(s[3]), s[4] >> = Str(<< "u", "r", "l", "(" >>)
      start == IF Len(s) >= 5 /\ s[5] \in Quotes THEN 6 ELSE 5
      Closes(q) == \/ q <= Len(s) /\ s[q] = Ord(")")
                   \/ q + 1 <= Len(s) /\ s[q] \in Quotes /\ s[q + 1] = Ord(")")
      ends == { q \in start..Len(s) :
                  Closes(q) /\ \A i \in start..(q - 1) : s[i] \notin LineTerminators }
  IN IF ~UrlOpen \/ ends = {} THEN [len |-> 0, url |-> << >>]
     ELSE LET q == CHOOSE e \in ends : \A f \in ends : e <= f
          IN [len |-> IF s[q] = Ord(")") THEN q ELSE q + 1,
              url |-> SubSeq(s, start, q - 1)]

\* What the style pass puts in place of one match.
RewriteStyleUrl(match, url, targetUrl, proxyBaseUrl) ==
  IF url # << >> /\ ~StartsWith(url, DataPrefix) /\ ~StartsWith(url, JavascriptPrefix)
  THEN LET With(absoluteUrl) ==
             IF absoluteUrl.ok /\ IsProxiable(absoluteUrl.val)
             THEN Concat(<< Str(<< "u", "r", "l", "(", "'" >>), Proxied(absoluteUrl.val, proxyBaseUrl), Str(<< "'", ")" >>) >>)
             ELSE match
       IN With(AbsoluteUrl(url, targetUrl))
  ELSE match

RECURSIVE RewriteStyleValue(_, _, _)
\* style.replace(/url\(['"]?(.*?)['"]?\)/gi, ...)
RewriteStyleValue(style, targetUrl, proxyBaseUrl) ==
  IF style = << >> THEN << >>
  ELSE LET m == UrlMatch(style)
       IN IF m.len = 0
          THEN << Head(style) >> \o RewriteStyleValue(Tail(style), targetUrl, proxyBaseUrl)
          ELSE RewriteStyleUrl(SubSeq(style, 1, m.len), m.url, targetUrl, proxyBaseUrl)
                 \o RewriteStyleValue(Drop(style, m.len), targetUrl, proxyBaseUrl)

\* The style pass: every element with a style attribute.
RewriteStyle(el, targetUrl, proxyBaseUrl) ==
  IF HasAttr(el, "style")
  THEN [el EXCEPT !.attrs["style"] =
          RewriteStyleValue(el.attrs["style"], targetUrl, proxyBaseUrl)]
  ELSE el

\* The meta pass: the content of a meta element that starts with http:// or
\* https://.
RewriteMeta(el, targetUrl, proxyBaseUrl) ==
  IF el.tag = "meta" /\ HasAttr(el, "content")
       /\ (StartsWith(el.attrs["content"], Str(<< "h", "t", "t", "p", ":", "/", "/" >>)) \/ StartsWith(el.attrs["content"], Str(<< "h", "t", "t", "p", "s", ":", "/", "/" >>)))
  THEN LET With(absoluteUrl) ==
             IF absoluteUrl.ok /\ IsProxiable(absoluteUrl.val)
             THEN [el EXCEPT !.attrs["content"] = Proxied(absoluteUrl.val, proxyBaseUrl)]
             ELSE el
       IN With(AbsoluteUrl(el.attrs["content"], targetUrl))
  ELSE el

\* rewriteResourceUrls(document, targetUrl, proxyBaseUrl): the attribute
\* pass, then the srcset, style and meta passes.
rewriteResourceUrls(document, targetUrl, proxyBaseUrl) ==
  LET Each(elements, F(_)) == [i \in 1..Len(elements) |-> F(elements[i])]
      MapElements(doc, F(_)) == [head |-> Each(doc.head, F), body |-> Each(doc.body, F)]
      attributes == MapElements(document, LAMBDA el : RewriteAttributes(el, targetUrl, proxyBaseUrl))
      srcsets == MapElements(attributes, LAMBDA el : RewriteSrcset(el, targetUrl, proxyBaseUrl))
      styles == MapElements(srcsets, LAMBDA el : RewriteStyle(el, targetUrl, proxyBaseUrl))
  IN MapElements(styles, LAMBDA el : RewriteMeta(el, targetUrl, proxyBaseUrl))

\* document.querySelectorAll('meta[http-equiv="Content-Security-Policy"]')
\* .forEach(el => el.remove())
RemoveCsp(document) ==
  LET Kept(el) == ~(el.tag = "meta" /\ HasAttr(el, "http-equiv")
                      /\ el.attrs["http-equiv"] =
                           Str(<< "C", "o", "n", "t", "e", "n", "t", "-", "S", "e", "c", "u", "r", "i", "t", "y", "-", "P", "o", "l", "i", "c", "y" >>))
  IN [head |-> SelectSeq(document.head, Kept), body |-> SelectSeq(document.body, Kept)]

\* base = document.createElement('base'); base.href = targetUrl;
\* document.head.prepend(base)
PrependBase(document, targetUrl) ==
  [document EXCEPT !.head = << Element("base", [a \in {"href"} |-> targetUrl]) >> \o @]

\* The inline script GET /go puts in place of a script with a src: it creates
\* a script element whose src is the given URL and appends it to the head.
LoaderScript(url) ==
  [tag |-> "script", attrs |-> NoAttrs, text |-> [kind |-> "loader", url |-> url]]

\* The script handling of GET /go, which follows rewriteResourceUrls: what it
\* leaves in the place of one element.
ReplaceScript(el, targetUrl) ==
  IF el.tag = "script" /\ HasAttr(el, "src") /\ el.attrs["src"] # << >>
       /\ ~StartsWith(el.attrs["src"], DataPrefix)
  THEN LET With(absoluteUrl) ==
             IF absoluteUrl.ok /\ IsProxiable(absoluteUrl.val)
             THEN LoaderScript(Proxied(absoluteUrl.val, PROXY_BASE_URL))
             ELSE el
       IN With(AbsoluteUrl(el.attrs["src"], targetUrl))
  ELSE el

\* The client patch both handlers append to the body: its proxy() sends
\* navigation to PROXY_BASE_URL + '/go?url=' + btoa(...).
ClientPatch ==
  [tag |-> "script", attrs |-> NoAttrs, text |-> [kind |-> "clientPatch", url |-> PROXY_BASE_URL]]

AppendPatch(document) == [document EXCEPT !.body = Append(@, ClientPatch)]

\* The document GET /go serialises, stores and sends.
GetDocument(document, targetUrl) ==
  LET Scripts(elements) == [i \in 1..Len(elements) |-> ReplaceScript(elements[i], targetUrl)]
      Handled(rewritten) == [head |-> Scripts(rewritten.head), body |-> Scripts(rewritten.body)]
  IN AppendPatch(Handled(rewriteResourceUrls(PrependBase(RemoveCsp(document), targetUrl),
                                             targetUrl, PROXY_BASE_URL)))

\* The document POST /go serialises and sends.
PostDocument(document, targetUrl) ==
  AppendPatch(rewriteResourceUrls(PrependBase(RemoveCsp(document), targetUrl),
                                  targetUrl, PROXY_BASE_URL))

\* Faulty variant of Decoding: the decoded string is not validated.
Decoding_unvalidated(encoded) ==
  IF encoded = << >> THEN [status |-> 400, error |-> "URL parameter is required", targetUrl |-> << >>]
  ELSE LET d == decodeUrl(encoded) IN
       IF ~d.ok THEN [status |-> 400, error |-> "Malformed URL", targetUrl |-> << >>]
       ELSE [status |-> 0, error |-> "", targetUrl |-> d.val]

\* The DECODING step of both /go handlers: the status it answers with (0 when
\* it answers nothing and the handler goes on) and the target URL.
Decoding(encoded) ==
  IF encoded = << >> THEN [status |-> 400, error |-> "URL parameter is required", targetUrl |-> << >>]
  ELSE LET d == decodeUrl(encoded) IN
       IF ~d.ok THEN [status |-> 400, error |-> "Malformed URL", targetUrl |-> << >>]
       ELSE IF ~isValidUrl(d.val)
            THEN [status |-> 400, error |-> "Invalid target URL", targetUrl |-> d.val]
       ELSE [status |-> 0, error |-> "", targetUrl |-> d.val]

\* ------------------------------------------------------------------------
\* Bounds and inputs
\* ------------------------------------------------------------------------

\* Requests received in one run.
MaxReqs == 3
\* Steps of the clock in one run.
MaxTicks == 2
\* Capacity of the cache. index.js:22 sets 50; the model runs a smaller cache
\* so that a run fills it and evicts.
MAX_CACHE_SIZE == 1
\* index.js:23, 2 * 60 * 1000 ms.
CACHE_TTL == 120000
\* index.js:263 and 474: fetchWithRetry(targetUrl, ..., 2, 10000).
Retries == 2

\* Handlers that can be running at the same time.
Slots == {1, 2}

\* Strings the codec is tried on: a prefix, a host and a rest.
Prefixes ==
  { Str(<< "h", "t", "t", "p", ":", "/", "/" >>),
    Str(<< "h", "t", "t", "p", "s", ":", "/", "/" >>),
    Str(<< "H", "T", "T", "P", ":", "/", "/" >>),
    Str(<< "h", "t", "t", "p", ":" >>),
    Str(<< "f", "t", "p", ":", "/", "/" >>),
    Str(<< "j", "a", "v", "a", "s", "c", "r", "i", "p", "t", ":" >>),
    Str(<< "d", "a", "t", "a", ":" >>),
    Str(<< "/", "/" >>),
    Str(<< "/" >>),
    << >> }
Hosts == { Str(<< "a" >>), Str(<< "a", ".", "b", ":", "8", "0" >>) }
Rests ==
  { << >>,
    Str(<< "/" >>),
    Str(<< "/", "b", "?", "q", "=", "1" >>),
    Str(<< "/", "%", "4", "1" >>),
    Str(<< "/", "b", "%", "2", "0", "c" >>),
    Str(<< "/", "%" >>),
    Str(<< "/", "%", "z", "z" >>),
    Str(<< "/" >>) \o << 233 >>,
    Str(<< "/", "a", "+", "b" >>),
    Str(<< "/", "b", "c", "~" >>) }
Urls == { Concat(<< p, h, r >>) : p \in Prefixes, h \in Hosts, r \in Rests }

\* Target URLs of the requests of a run.
UrlA == Str(<< "h", "t", "t", "p", ":", "/", "/", "a", "/" >>)
UrlB == Str(<< "h", "t", "t", "p", ":", "/", "/", "b", "/" >>)
UrlC == Str(<< "h", "t", "t", "p", "s", ":", "/", "/", "c", "/", "x" >>)

RECURSIVE Unpadded(_)
\* A token without its trailing '='.
Unpadded(t) ==
  IF t # << >> /\ t[Len(t)] = PadChar THEN Unpadded(SubSeq(t, 1, Len(t) - 1)) ELSE t

\* A token with a character from outside the base64 alphabet put in.
Junked(t, c) == SubSeq(t, 1, 4) \o << c >> \o SubSeq(t, 5, Len(t))

\* Tokens a client can send that encodeUrl does not produce.
RawTokens ==
  { << >>, Str(<< "!", "!", "!", "!" >>), Str(<< "%", "%" >>), Str(<< "a" >>) }
    \cup { Unpadded(encodeUrl(u)) : u \in {UrlA, UrlC} }
    \cup { Junked(encodeUrl(u), c) : u \in {UrlA, UrlC}, c \in {Ord("!"), Ord(" "), Ord("*")} }

\* Tokens of the requests of a run: three targets, a missing parameter, a
\* token that does not decode, one that decodes to no http(s) URL and one with
\* a character from outside the base64 alphabet.
Tokens ==
  { encodeUrl(UrlA), encodeUrl(UrlB), encodeUrl(UrlC),
    << >>,
    encodeUrl(Str(<< "h", "t", "t", "p", ":", "/", "/", "a", "/", "%" >>)),
    encodeUrl(Str(<< "j", "a", "v", "a", "s", "c", "r", "i", "p", "t", ":", "x" >>)) }

Methods == {"GET", "POST"}

\* Upstream documents and the content types and statuses the upstream answers.
Docs == {"doc1", "doc2"}
HtmlTypes == {"text/html; charset=utf-8", "application/xhtml+xml"}
CTypes == HtmlTypes \cup {"image/png"}
Statuses == {200, 404}
Answers == [status : Statuses, ctype : CTypes, doc : Docs]
\* The documents the upstream serves at a URL: the one at UrlA changes.
DocsAt(url) == IF url = UrlA THEN Docs ELSE {"doc1"}

\* ------------------------------------------------------------------------
\* State
\* ------------------------------------------------------------------------

VARIABLES
  cache,     \* the Map: its entries in insertion order
  now,       \* Date.now()
  reqs,      \* the handler running in each slot: its position and its locals
  received,  \* requests received so far
  out,       \* what the step just taken did and sent to its client
  codec,     \* the codec at work on one input, outside any request
  page       \* the rewriter at work on one document, outside any request

vars == << cache, now, reqs, received, out, codec, page >>

\* ------------------------------------------------------------------------
\* The cache: a Map keeps its keys in insertion order; set() on a key that is
\* present replaces the value where it stands.
\* ------------------------------------------------------------------------

CacheHas(c, k) == \E i \in 1..Len(c) : c[i].key = k
CacheGet(c, k) == c[CHOOSE i \in 1..Len(c) : c[i].key = k]
\* Faulty variant of CacheDelete: the delete empties the cache.
CacheDelete_all(c, k) == << >>

CacheDelete(c, k) == SelectSeq(c, LAMBDA e : e.key # k)
CacheSet(c, k, e) ==
  IF CacheHas(c, k) THEN [i \in 1..Len(c) |-> IF c[i].key = k THEN e ELSE c[i]]
  ELSE Append(c, e)

\* Faulty variant of manageCacheSize: a cache over its capacity is emptied.
manageCacheSize_clear(c) == IF Len(c) > MAX_CACHE_SIZE THEN << >> ELSE c

\* Faulty variant of manageCacheSize: nothing is deleted.
manageCacheSize_never(c) == c

\* Faulty variant of manageCacheSize: the last key is deleted.
manageCacheSize_last(c) ==
  IF Len(c) > MAX_CACHE_SIZE THEN CacheDelete(c, c[Len(c)].key) ELSE c

\* manageCacheSize(): when the cache holds more than MAX_CACHE_SIZE entries,
\* delete the first key.
manageCacheSize(c) ==
  IF Len(c) > MAX_CACHE_SIZE THEN CacheDelete(c, c[1].key) ELSE c

\* `get:${encoded}`
CacheKey(encoded) == Str(<< "g", "e", "t", ":" >>) \o encoded

\* Faulty variant of IsFresh: an entry exactly CACHE_TTL old still counts as fresh.
IsFresh_inclusive(cached, t) == t - cached.timestamp <= CACHE_TTL

\* Date.now() - cached.timestamp < CACHE_TTL
IsFresh(cached, t) == t - cached.timestamp < CACHE_TTL

\* Decoding and CacheKey of the tokens of a run.
DecodingOf == [e \in Tokens |-> Decoding(e)]
KeyOf == [e \in Tokens |-> CacheKey(e)]

\* ------------------------------------------------------------------------
\* Responses
\* ------------------------------------------------------------------------

JsonBody(err) == [kind |-> "json", base |-> << >>, doc |-> "", error |-> err]
StreamBody(d) == [kind |-> "stream", base |-> << >>, doc |-> d, error |-> ""]
\* The document after the rewrite pass: base tag, rewritten references and
\* client patch, for the target URL it was fetched from.
RewrittenBody(targetUrl, d) == [kind |-> "html", base |-> targetUrl, doc |-> d, error |-> ""]

JsonHeaders == {<< "Content-Type", "application/json" >>}
HtmlHeaders == {<< "Content-Type", "text/html" >>}

NoResponse == [status |-> 0, kind |-> "none", headers |-> {}, body |-> JsonBody("")]
NoAnswer == [status |-> 0, ctype |-> "", doc |-> ""]

\* res.status(400).json({ error })
BadRequest(err) ==
  [status |-> 400, kind |-> "bad_request", headers |-> JsonHeaders, body |-> JsonBody(err)]

\* Faulty variant of HitResponse: the stored headers are not set.
HitResponse_noheaders(cached) ==
  [status |-> 200, kind |-> "cached", headers |-> {}, body |-> cached.body]

\* res.set(cached.headers); res.send(cached.body)
HitResponse(cached) ==
  [status |-> 200, kind |-> "cached", headers |-> cached.headers, body |-> cached.body]

\* res.status(response.status).json({ error: `Upstream error: ...` })
UpstreamError(answer) ==
  [status |-> answer.status, kind |-> "upstream_error", headers |-> JsonHeaders,
   body |-> JsonBody("Upstream error")]

IsMedia(ctype) == ctype \in {"image/png"}

\* res.set('Content-Type', contentType), Cache-Control for media (GET only),
\* then response.body.pipe(res): the status is left at 200.
Passthrough(answer, media) ==
  [status |-> 200, kind |-> "passthrough",
   headers |-> {<< "Content-Type", answer.ctype >>}
                 \cup (IF media /\ IsMedia(answer.ctype)
                       THEN {<< "Cache-Control", "public, max-age=3600" >>} ELSE {}),
   body |-> StreamBody(answer.doc)]

\* res.set('Content-Type', 'text/html'); res.send(responseHtml)
Rewritten(body) ==
  [status |-> 200, kind |-> "rewritten", headers |-> HtmlHeaders, body |-> body]

\* res.status(500).json({ error: 'Proxy error', message: err.message })
ProxyError(message) ==
  [status |-> 500, kind |-> "proxy_error", headers |-> JsonHeaders, body |-> JsonBody(message)]

\* Faulty variant of ResponseOk: the status is not looked at.
ResponseOk_any(status) == TRUE

\* response.ok
ResponseOk(status) == status \in 200..299

\* Faulty variant of IsHtml: every content type is taken for HTML.
IsHtml_any(ctype) == TRUE

\* contentType.includes('text/html') || contentType.includes('application/xhtml+xml')
IsHtml(ctype) == ctype \in HtmlTypes

\* The entry GET /go stores.
CacheEntry(key, targetUrl, body, t) ==
  [key |-> key, targetUrl |-> targetUrl, headers |-> HtmlHeaders, body |-> body,
   timestamp |-> t]

\* Faulty variant of ShouldRetry: one retry too many.
ShouldRetry_inclusive(retries) == retries >= 0

\* if (retries > 0)
ShouldRetry(retries) == retries > 0

\* ------------------------------------------------------------------------
\* Request headers. An object is the sequence of its properties, << name,
\* value >>, in insertion order; property names are case-sensitive.
\* ------------------------------------------------------------------------

\* The header names the code writes, and the name of the User-Agent header as
\* the fetch library and req.headers have it.
HeaderNames ==
  [UserAgent |-> Str(<< "U", "s", "e", "r", "-", "A", "g", "e", "n", "t" >>),
   ContentType |-> Str(<< "C", "o", "n", "t", "e", "n", "t", "-", "T", "y", "p", "e" >>),
   useragent |-> Str(<< "u", "s", "e", "r", "-", "a", "g", "e", "n", "t" >>)]

\* index.js:72, the built-in User-Agent.
BrowserAgent == "Mozilla/5.0 (Windows NT 10.0; Win64; x64) AppleWebKit/537.36"

RECURSIVE Spread(_, _)
\* { ...object, ...source }: a property of the source replaces the property
\* of the same name where it stands, and is added at the end otherwise.
Spread(object, source) ==
  LET Has(o, name) == \E i \in 1..Len(o) : o[i][1] = name
      Put(o, property) ==
        IF Has(o, property[1])
        THEN [i \in 1..Len(o) |-> IF o[i][1] = property[1] THEN property ELSE o[i]]
        ELSE Append(o, property)
  IN IF source = << >> THEN object ELSE Spread(Put(object, Head(source)), Tail(source))

\* The header lines the fetch library sends for a headers object: header
\* names are case-insensitive, so every property gives a line under its name
\* in lower case, and two properties whose names differ only in case give two
\* lines of one header.
HeaderLines(object) ==
  [i \in 1..Len(object) |->
     << [j \in 1..Len(object[i][1]) |-> ToLower(object[i][1][j])], object[i][2] >>]

\* fetchWithRetry: headers: { 'User-Agent': ..., ...options.headers }
FetchHeaders(headers) ==
  HeaderLines(Spread(<< << HeaderNames.UserAgent, BrowserAgent >> >>, headers))

\* app.post('/go'): headers: { 'Content-Type': ..., ...req.headers }; the
\* names of req.headers are in lower case.
PostHeaders(reqHeaders) ==
  Spread(<< << HeaderNames.ContentType, "application/x-www-form-urlencoded" >> >>, reqHeaders)

\* The values of the User-Agent lines of a request.
UserAgents(lines) ==
  LET agents == SelectSeq(lines, LAMBDA line : line[1] = HeaderNames.useragent)
  IN [i \in 1..Len(agents) |-> agents[i][2]]

\* req.headers of the clients: a client that names itself, and one that sends
\* no User-Agent.
ClientHeaders ==
  { << << HeaderNames.useragent, "curl/8.0" >>, << Str(<< "a", "c", "c", "e", "p", "t" >>), "*/*" >> >>,
    << << Str(<< "a", "c", "c", "e", "p", "t" >>), "*/*" >> >> }

\* Faulty variant of clearTimeout: the timer stays pending.
clearTimeout_kept(timers, n) == timers

\* clearTimeout(timeoutId) in the call that made attempt n.
clearTimeout(timers, n) == timers \ {n}

\* ------------------------------------------------------------------------
\* Handlers. A slot holds a handler that is suspended at an await: in
\* fetchWithRetry with an attempt in flight ("fetching") or in its delay
\* ("delay"), or in response.text() ("reading"). A handler that has sent its
\* response leaves its slot.
\* ------------------------------------------------------------------------

Idle ==
  [pc |-> "idle", method |-> "", encoded |-> << >>, targetUrl |-> << >>,
   retries |-> 0, upstream |-> NoAnswer,
   headers |-> << >>,   \* options.headers of the fetchWithRetry call
   request |-> << >>,   \* the header lines of the attempt in flight
   inflight |-> {},     \* the attempts in flight, by their number
   timers |-> {},       \* the attempts whose abort timer is pending
   waiting |-> FALSE,   \* the timer of the inter-attempt delay is pending
   cleared |-> FALSE]   \* observer: /clear-cache has responded since the receipt

\* Upstream attempts fetchWithRetry has made so far for the handler.
Attempts(rec) == IF rec.pc \in {"fetching", "delay"} THEN Retries + 1 - rec.retries ELSE 0

Quiet ==
  [op |-> "none", step |-> "none", slot |-> 0, encoded |-> << >>, targetUrl |-> << >>,
   lookup |-> "none", attempts |-> 0, upstream |-> NoAnswer, resp |-> NoResponse,
   previousSize |-> 0, currentSize |-> 0]

\* What a step of the handler in slot r did: rec is the handler before it
\* left the slot, resp the response it sent (NoResponse when it sent none).
Event(r, step, rec, lookup, attempts, resp) ==
  [Quiet EXCEPT !.op = rec.method, !.step = step, !.slot = r, !.encoded = rec.encoded,
                !.targetUrl = rec.targetUrl, !.lookup = lookup, !.attempts = attempts,
                !.upstream = rec.upstream, !.resp = resp]

\* The handler in slot r sends its response and ends.
Respond(r, step, rec, lookup, attempts, response) ==
  /\ reqs' = [reqs EXCEPT ![r] = Idle]
  /\ out' = Event(r, step, rec, lookup, attempts, response)

\* The handler in slot r goes on to its next await.
Suspend(r, step, rec, lookup, attempts) ==
  /\ reqs' = [reqs EXCEPT ![r] = rec]
  /\ out' = Event(r, step, rec, lookup, attempts, NoResponse)

\* An attempt of fetchWithRetry starts: a controller, its abort timer, and the
\* fetch with the merged headers.
Attempt(rec, n) ==
  [rec EXCEPT !.pc = "fetching", !.request = FetchHeaders(rec.headers),
              !.inflight = @ \cup {n}, !.timers = @ \cup {n}, !.waiting = FALSE]

\* fetchWithRetry is entered: the first attempt is in flight.
StartFetch(rec) == Attempt([rec EXCEPT !.retries = Retries], 1)

\* GET /go up to its first await: decoding, cache lookup and either an answer
\* (400, or the cached entry) or the first upstream attempt.
GetGo(r, encoded) ==
  LET d == DecodingOf[encoded]
      rec == [Idle EXCEPT !.method = "GET", !.encoded = encoded, !.targetUrl = d.targetUrl]
      key == KeyOf[encoded]
  IN IF d.status # 0 THEN
       /\ Respond(r, "receive", rec, "none", 0, BadRequest(d.error))
       /\ cache' = cache
     ELSE IF CacheHas(cache, key) /\ IsFresh(CacheGet(cache, key), now) THEN
       /\ Respond(r, "receive", rec, "hit", 0, HitResponse(CacheGet(cache, key)))
       /\ cache' = cache
     ELSE
       /\ cache' = CacheDelete(cache, key)
       /\ Suspend(r, "receive", StartFetch(rec),
                  IF CacheHas(cache, key) THEN "stale" ELSE "miss", 1)

\* POST /go up to its first await: decoding and the first upstream attempt.
PostGo(r, encoded, reqHeaders) ==
  LET d == DecodingOf[encoded]
      rec == [Idle EXCEPT !.method = "POST", !.encoded = encoded, !.targetUrl = d.targetUrl]
  IN /\ cache' = cache
     /\ IF d.status # 0 THEN Respond(r, "receive", rec, "none", 0, BadRequest(d.error))
        ELSE Suspend(r, "receive",
                     StartFetch([rec EXCEPT !.headers = PostHeaders(reqHeaders)]), "none", 1)

\* A request arrives and its handler runs up to its first await.
Receive(r, method, encoded, reqHeaders) ==
  /\ reqs[r].pc = "idle"
  /\ received < MaxReqs
  /\ received' = received + 1
  /\ IF method = "GET" THEN GetGo(r, encoded) ELSE PostGo(r, encoded, reqHeaders)
  /\ UNCHANGED << now, codec, page >>

\* The attempt in flight rejects (transport failure, or abort by the timeout):
\* fetchWithRetry waits for the delay when retries are left, and throws
\* otherwise, which the handler answers with 500.
\* The catch of fetchWithRetry after attempt n has rejected: its timer is
\* cleared, then the delay when retries are left, the error thrown otherwise.
Rejected(r, step, n) ==
  LET rec == [reqs[r] EXCEPT !.inflight = @ \ {n}, !.timers = clearTimeout(@, n),
                             !.request = << >>]
  IN IF ShouldRetry(rec.retries)
     THEN Suspend(r, step, [rec EXCEPT !.pc = "delay", !.waiting = TRUE], "none",
                  Attempts(reqs[r]))
     ELSE Respond(r, step, rec, "none", Attempts(reqs[r]), ProxyError("fetch failed"))

AttemptFails(r) ==
  /\ reqs[r].pc = "fetching"
  /\ \E n \in reqs[r].inflight : Rejected(r, "attempt_failed", n)
  /\ UNCHANGED << cache, now, received, codec, page >>

\* The abort timer of attempt n fires: controller.abort() of the call that
\* made attempt n. The attempt, when it is in flight, rejects; an attempt that
\* is over is not affected, nor is any other attempt.
TimeoutFires(r, n) ==
  /\ n \in reqs[r].timers
  /\ IF n \in reqs[r].inflight
     THEN Rejected(r, "timed_out", n)
     ELSE Suspend(r, "timed_out", [reqs[r] EXCEPT !.timers = @ \ {n}], "none", 0)
  /\ UNCHANGED << cache, now, received, codec, page >>

\* The delay is over: fetchWithRetry(url, options, retries - 1, timeout).
RetryAttempt(r) ==
  /\ reqs[r].pc = "delay"
  /\ LET rec == Attempt([reqs[r] EXCEPT !.retries = @ - 1],
                        Retries + 2 - reqs[r].retries)
     IN Suspend(r, "retry", rec, "none", Attempts(rec))
  /\ UNCHANGED << cache, now, received, codec, page >>

\* The handler once fetchWithRetry has returned: its retries are gone.
AfterFetch(rec, answer) ==
  [rec EXCEPT !.retries = 0, !.upstream = answer, !.pc = "reading",
              !.inflight = {}, !.timers = clearTimeout(@, Attempts(rec)),
              !.headers = << >>, !.request = << >>]

\* GET /go after fetchWithRetry has returned a response.
GetAnswered(r, answer) ==
  LET rec == AfterFetch(reqs[r], answer)
      n == Attempts(reqs[r])
  IN IF ~ResponseOk(answer.status) THEN Respond(r, "answered", rec, "none", n, UpstreamError(answer))
     ELSE IF ~IsHtml(answer.ctype)
          THEN Respond(r, "answered", rec, "none", n, Passthrough(answer, TRUE))
     ELSE Suspend(r, "answered", rec, "none", n)

\* POST /go after fetchWithRetry has returned a response.
PostAnswered(r, answer) ==
  LET rec == AfterFetch(reqs[r], answer)
      n == Attempts(reqs[r])
  IN IF ~IsHtml(answer.ctype)
     THEN Respond(r, "answered", rec, "none", n, Passthrough(answer, FALSE))
     ELSE Suspend(r, "answered", rec, "none", n)

\* The attempt in flight resolves with the upstream's response.
AttemptAnswers(r, answer) ==
  /\ reqs[r].pc = "fetching"
  /\ answer.doc \in DocsAt(reqs[r].targetUrl)
  /\ IF reqs[r].method = "GET" THEN GetAnswered(r, answer) ELSE PostAnswered(r, answer)
  /\ UNCHANGED << cache, now, received, codec, page >>

\* GET /go after response.text(): rewrite, store, send. The step records the
\* size of the cache before manageCacheSize() and after cache.set().
GetBodyRead(r) ==
  LET key == KeyOf[reqs[r].encoded]
      responseHtml == RewrittenBody(reqs[r].targetUrl, reqs[r].upstream.doc)
      stored == CacheSet(manageCacheSize(cache), key,
                         CacheEntry(key, reqs[r].targetUrl, responseHtml, now))
  IN /\ cache' = stored
     /\ reqs' = [reqs EXCEPT ![r] = Idle]
     /\ out' = [Event(r, "body_read", reqs[r], "none", 0, Rewritten(responseHtml))
                  EXCEPT !.previousSize = Len(cache), !.currentSize = Len(stored)]

\* Faulty variant of PostBodyRead: the POST handler stores what it sends, as
\* the GET handler does.
PostBodyRead_caching(r) == GetBodyRead(r)

\* POST /go after response.text(): rewrite, send.
PostBodyRead(r) ==
  /\ cache' = cache
  /\ Respond(r, "body_read", reqs[r], "none", 0,
             Rewritten(RewrittenBody(reqs[r].targetUrl, reqs[r].upstream.doc)))

\* response.text() resolves.
BodyRead(r) ==
  /\ reqs[r].pc = "reading"
  /\ IF reqs[r].method = "GET" THEN GetBodyRead(r) ELSE PostBodyRead(r)
  /\ UNCHANGED << now, received, codec, page >>

\* response.text() rejects, or the document cannot be processed: the handler's
\* catch answers 500.
BodyFails(r) ==
  /\ reqs[r].pc = "reading"
  /\ Respond(r, "body_failed", reqs[r], "none", 0, ProxyError("processing failed"))
  /\ UNCHANGED << cache, now, received, codec, page >>

\* Faulty variant of ClearCache: previousSize is read after cache.clear().
ClearCache_late ==
  /\ cache' = << >>
  /\ out' = [Quiet EXCEPT !.op = "clear-cache", !.previousSize = Len(cache'),
                          !.currentSize = Len(cache')]
  /\ UNCHANGED << now, reqs, received, codec, page >>

\* POST /clear-cache: previousSize = cache.size; cache.clear(); the response
\* carries previousSize and cache.size.
ClearCache ==
  /\ cache' = << >>
  /\ out' = [Quiet EXCEPT !.op = "clear-cache", !.previousSize = Len(cache),
                          !.currentSize = Len(cache')]
  /\ UNCHANGED << now, reqs, received, codec, page >>

\* POST /clear-cache with an observer: the GET /go handlers that are running
\* when the cache is cleared are marked; the code keeps no such mark.
ClearCacheSeen ==
  /\ cache' = << >>
  /\ out' = [Quiet EXCEPT !.op = "clear-cache", !.previousSize = Len(cache),
                          !.currentSize = Len(cache')]
  /\ reqs' = [r \in Slots |->
               IF reqs[r].method = "GET" /\ reqs[r].pc # "idle"
               THEN [reqs[r] EXCEPT !.cleared = TRUE] ELSE reqs[r]]
  /\ UNCHANGED << now, received, codec, page >>

\* GET /health: the response carries cache.size.
Health ==
  /\ out' = [Quiet EXCEPT !.op = "health", !.currentSize = Len(cache)]
  /\ UNCHANGED << cache, now, reqs, received, codec, page >>

\* Ticks the clock has made: it moves by one millisecond or by one
\* millisecond less than the TTL.
Ticks(t) == (t \div (CACHE_TTL - 1)) + (t % (CACHE_TTL - 1))

Tick(d) ==
  /\ Ticks(now) < MaxTicks
  /\ now' = now + d
  /\ out' = Quiet
  /\ UNCHANGED << cache, reqs, received, codec, page >>

CodecOff ==
  [phase |-> "off", given |-> "none", url |-> << >>, token |-> << >>, decoded |-> Thrown,
   status |-> 0]

\* A call of a browser function: its URL, its other arguments, and for a form
\* submission whether the event was prevented and whether the user was told.
NoCall == [fn |-> "", url |-> << >>, args |-> << >>, prevented |-> FALSE, alerted |-> FALSE]

PageOff ==
  [phase |-> "off", method |-> "", targetUrl |-> << >>, document |-> [head |-> << >>, body |-> << >>],
   emitted |-> [head |-> << >>, body |-> << >>], status |-> 0, call |-> NoCall, effect |-> NoCall]

Init ==
  /\ cache = << >>
  /\ now = 0
  /\ reqs = [r \in Slots |-> Idle]
  /\ received = 0
  /\ out = Quiet
  /\ codec = CodecOff
  /\ page = PageOff

\* The proxy with one handler at a time, on every input.
Next ==
  \/ \E m \in Methods, e \in Tokens : Receive(1, m, e, << >>)
  \/ AttemptFails(1)
  \/ RetryAttempt(1)
  \/ \E a \in Answers : AttemptAnswers(1, a)
  \/ BodyRead(1)
  \/ BodyFails(1)
  \/ \E d \in {1, CACHE_TTL - 1} : Tick(d)
  \/ ClearCache
  \/ Health

Spec == Init /\ [][Next]_vars

\* The inputs of the runs with handlers running at the same time.
ConcTokens == { encodeUrl(UrlA), encodeUrl(UrlB) }
ConcAnswers == { a \in Answers : a.ctype = "text/html; charset=utf-8" /\ a.doc = "doc1" }

\* The proxy with the handlers of all slots interleaved at their awaits.
NextConc ==
  \/ \E r \in Slots, m \in Methods, e \in ConcTokens : Receive(r, m, e, << >>)
  \/ \E r \in Slots : AttemptFails(r)
  \/ \E r \in Slots : RetryAttempt(r)
  \/ \E r \in Slots, a \in ConcAnswers : AttemptAnswers(r, a)
  \/ \E r \in Slots : BodyRead(r)
  \/ \E r \in Slots : BodyFails(r)
  \/ \E d \in {1, CACHE_TTL - 1} : Tick(d)
  \/ ClearCache

SpecConc == Init /\ [][NextConc]_vars

\* The inputs of the runs that follow the upstream attempts and their timers.
FetchTokens == { encodeUrl(UrlA), encodeUrl(UrlB), encodeUrl(UrlC) }

\* The proxy with the handlers of all slots interleaved, the timers of
\* fetchWithRetry firing on their own, and the clock standing still.
NextFetch ==
  \/ \E r \in Slots, m \in Methods, e \in FetchTokens, h \in ClientHeaders :
       Receive(r, m, e, h)
  \/ \E r \in Slots : AttemptFails(r)
  \/ \E r \in Slots, n \in 1..(Retries + 1) : TimeoutFires(r, n)
  \/ \E r \in Slots : RetryAttempt(r)
  \/ \E r \in Slots, a \in ConcAnswers : AttemptAnswers(r, a)
  \/ \E r \in Slots : BodyRead(r)
  \/ \E r \in Slots : BodyFails(r)
  \/ ClearCacheSeen

\* A pending timer fires: the abort timer of an attempt (setTimeout of
\* controller.abort) and the timer of the inter-attempt delay. Nothing in the
\* code bounds the time response.text() takes.
SpecFetch ==
  /\ Init
  /\ [][NextFetch]_vars
  /\ \A r \in Slots :
       /\ WF_vars(\E n \in 1..(Retries + 1) : TimeoutFires(r, n))
       /\ WF_vars(RetryAttempt(r))

\* ------------------------------------------------------------------------
\* The codec on its own: a URL is encoded as the rewriter encodes it, or a
\* token arrives from a client; the token is decoded and checked as the /go
\* handlers do.
\* ------------------------------------------------------------------------

InitCodec ==
  /\ cache = << >>
  /\ now = 0
  /\ reqs = [r \in Slots |-> Idle]
  /\ received = 0
  /\ out = Quiet
  /\ codec \in { [CodecOff EXCEPT !.phase = "url", !.given = "url", !.url = u] : u \in Urls }
          \cup { [CodecOff EXCEPT !.phase = "token", !.given = "token", !.token = t] :
                 t \in RawTokens }
  /\ page = PageOff

CodecEncode ==
  /\ codec.phase = "url"
  /\ codec' = [codec EXCEPT !.phase = "token", !.token = encodeUrl(codec.url)]
  /\ UNCHANGED << cache, now, reqs, received, out, page >>

\* A query-string value as the query parser of the framework reads it: every
\* '+' is a space, then decodeURIComponent; the value with its spaces when
\* that throws.
FormDecode(value) ==
  LET spaced == [i \in 1..Len(value) |-> IF value[i] = Ord("+") THEN 32 ELSE value[i]]
      Unescaped(d) == IF d.ok THEN d.val ELSE spaced
  IN Unescaped(DecodeURIComponent(spaced))

\* req.query.url for a request of the given reference: the query string
\* follows the first '?', its pairs are separated by '&', and the value of a
\* pair follows its first '='. Empty when there is no such parameter.
QueryUrl(reference) ==
  LET path == UpTo(reference, {Ord("?")})
      pairs == SplitOn(Drop(reference, Len(path) + 1), Ord("&"))
      Name(pair) == UpTo(pair, {Ord("=")})
      urls == SelectSeq(pairs, LAMBDA pair : FormDecode(Name(pair)) = Str(<< "u", "r", "l" >>))
      Value(pair) == FormDecode(Drop(pair, Len(Name(pair)) + 1))
  IN IF urls = << >> THEN << >> ELSE Value(Head(urls))

\* The rewriter writes the reference `${proxyBaseUrl}/go?url=${encodedUrl}`
\* for the URL; a client follows it and GET /go reads req.query.url.
CodecEmbed ==
  /\ codec.phase = "url"
  /\ codec' = [codec EXCEPT !.phase = "token", !.given = "reference",
                            !.token = QueryUrl(Proxied(codec.url, PROXY_BASE_URL))]
  /\ UNCHANGED << cache, now, reqs, received, out, page >>

CodecDecode ==
  /\ codec.phase = "token"
  /\ codec' = [codec EXCEPT !.phase = "decoded", !.decoded = decodeUrl(codec.token)]
  /\ UNCHANGED << cache, now, reqs, received, out, page >>

CodecCheck ==
  /\ codec.phase = "decoded"
  /\ codec' = [codec EXCEPT !.phase = "checked", !.status = Decoding(codec.token).status]
  /\ UNCHANGED << cache, now, reqs, received, out, page >>

NextCodec == CodecEncode \/ CodecEmbed \/ CodecDecode \/ CodecCheck

SpecCodec == InitCodec /\ [][NextCodec]_vars

\* ------------------------------------------------------------------------
\* The rewriter on its own: a parsed document and the target URL it was
\* fetched from; the GET /go or the POST /go handler processes it and sends it.
\* ------------------------------------------------------------------------

\* Target URLs of the documents.
RwTargets == { Str(<< "h", "t", "t", "p", ":", "/", "/", "e", "x", "a", "m", "p", "l", "e", ".", "c", "o", "m", "/", "p", "a", "g", "e" >>), Str(<< "h", "t", "t", "p", "s", ":", "/", "/", "a", "/", "d", "/", "p", "?", "x", "=", "1" >>) }

\* Elements of the documents: references of every kind the passes look at.
RwElements ==
  { Element("img", ("src" :> Str(<< "/", "a", ".", "p", "n", "g" >>))),
    Element("img", ("src" :> Str(<< "a", ".", "p", "n", "g" >>))),
    Element("img", ("src" :> Str(<< "/", "/", "c", "d", "n", ".", "b", "/", "a", ".", "p", "n", "g" >>))),
    Element("a", ("href" :> Str(<< "h", "t", "t", "p", ":", "/", "/", "b", "/", "x" >>))),
    Element("a", ("href" :> Str(<< "H", "T", "T", "P", "S", ":", "/", "/", "C", "/", "x", "?", "q", "=", "1", "#", "f" >>))),
    Element("a", ("href" :> Str(<< "h", "t", "t", "p", "x", ":", "/", "/", "a", "/" >>))),
    Element("a", ("href" :> Str(<< "f", "t", "p", ":", "/", "/", "b", "/", "f" >>))),
    Element("a", ("href" :> Str(<< "m", "a", "i", "l", "t", "o", ":", "x", "@", "y" >>))),
    Element("a", ("href" :> Str(<< "j", "a", "v", "a", "s", "c", "r", "i", "p", "t", ":", "x" >>))),
    Element("a", ("href" :> Str(<< "J", "a", "v", "a", "S", "c", "r", "i", "p", "t", ":", "x" >>))),
    Element("a", ("href" :> Str(<< "#", "t", "o", "p" >>))),
    Element("a", ("href" :> << >>)),
    Element("a", ("href" :> Str(<< "h", "t", "t", "p", ":", "/", "/", "a", ":", "9", "9", "9", "9", "9", "/" >>))),
    Element("a", ("href" :> Str(<< "h", "t", "t", "p", ":", "/", "/" >>))),
    Element("link", ("href" :> Str(<< ".", ".", "/", "u", "p", ".", "c", "s", "s" >>))),
    Element("img", ("src" :> Str(<< "d", "a", "t", "a", ":", "x" >>)) @@ ("data-src" :> Str(<< "a", " ", "b", ".", "p", "n", "g" >>)) @@ ("alt" :> Str(<< "/", "a", ".", "p", "n", "g" >>))),
    Element("form", ("action" :> Str(<< "?", "q", "=", "1" >>))),
    Element("video", ("poster" :> Str(<< "b", "l", "o", "b", ":", "x" >>)) @@ ("src" :> Str(<< "v", ".", "m", "p", "4" >>))),
    Element("img", ("srcset" :> Str(<< "a", ".", "p", "n", "g", " ", "1", "x", ",", " ", "b", ".", "p", "n", "g", " ", "2", "x" >>))),
    Element("img", ("srcset" :> Str(<< "a", ".", "p", "n", "g" >>))),
    Element("img", ("srcset" :> Str(<< "f", "t", "p", ":", "/", "/", "b", "/", "a", ".", "p", "n", "g", " ", "1", "x", ",", " ", "b", ".", "p", "n", "g", " ", "2", "x" >>))),
    Element("img", ("srcset" :> << >>)),
    Element("script", ("src" :> Str(<< "/", "s", ".", "j", "s" >>))),
    Element("script", ("src" :> Str(<< "/", "/", "c", "d", "n", ".", "b", "/", "s", ".", "j", "s" >>))),
    Element("script", ("src" :> Str(<< "d", "a", "t", "a", ":", "x" >>))),
    Element("script", NoAttrs),
    Element("div", ("style" :> Str(<< "b", "a", "c", "k", "g", "r", "o", "u", "n", "d", ":", "u", "r", "l", "(", "'", "/", "b", "g", ".", "p", "n", "g", "'", ")" >>))),
    Element("div", ("style" :> Str(<< "b", "a", "c", "k", "g", "r", "o", "u", "n", "d", ":", "U", "R", "L", "(", "b", "g", ".", "p", "n", "g", ")", ";", "c", "o", "l", "o", "r", ":", "r", "e", "d" >>))),
    Element("div", ("style" :> Str(<< "b", "a", "c", "k", "g", "r", "o", "u", "n", "d", ":", "u", "r", "l", "(", "\"", "d", "a", "t", "a", ":", "x", "\"", ")" >>))),
    Element("div", ("style" :> Str(<< "a", ":", "u", "r", "l", "(", "h", "t", "t", "p", ":", "/", "/", "a", ":", "9", "9", "9", "9", "9", "/", ")", ";", "b", ":", "u", "r", "l", "(", "/", "c", ".", "p", "n", "g", ")" >>))),
    Element("meta", ("content" :> Str(<< "h", "t", "t", "p", ":", "/", "/", "b", "/", "x" >>))),
    Element("meta", ("content" :> Str(<< "/", "r", "e", "l" >>))),
    Element("meta", ("content" :> Str(<< "h", "t", "t", "p", "s", ":", "/", "/", "a", ":", "9", "9", "9", "9", "9", "/" >>))) }

\* The documents: an empty head, or one with a policy to remove and a
\* stylesheet; in the body the element under study and, next to it, a
\* reference that is rewritten or one that new URL throws on.
RwDocuments ==
  LET companions ==
        { Element("img", ("src" :> Str(<< "/", "a", ".", "p", "n", "g" >>))),
          Element("a", ("href" :> Str(<< "h", "t", "t", "p", ":", "/", "/", "a", ":", "9", "9", "9", "9", "9", "/" >>))) }
      heads ==
        { << >>,
          << Element("meta", ("http-equiv" :> Str(<< "C", "o", "n", "t", "e", "n", "t", "-", "S", "e", "c", "u", "r", "i", "t", "y", "-", "P", "o", "l", "i", "c", "y" >>)) @@ ("content" :> Str(<< "d", "e", "f", "a", "u", "l", "t", "-", "s", "r", "c", " ", "'", "s", "e", "l", "f", "'" >>))),
             Element("link", ("rel" :> Str(<< "s", "t", "y", "l", "e", "s", "h", "e", "e", "t" >>)) @@ ("href" :> Str(<< "s", ".", "c", "s", "s" >>))) >> }
  IN { [head |-> h, body |-> << e1, e2 >>] : h \in heads, e1 \in RwElements, e2 \in companions }

InitRewrite ==
  /\ cache = << >>
  /\ now = 0
  /\ reqs = [r \in Slots |-> Idle]
  /\ received = 0
  /\ out = Quiet
  /\ codec = CodecOff
  /\ page \in { [PageOff EXCEPT !.phase = "parsed", !.targetUrl = t, !.document = d] :
                 t \in RwTargets, d \in RwDocuments }

\* GET /go from new JSDOM(html) to res.send(responseHtml).
RwGet ==
  /\ page.phase = "parsed"
  /\ page' = [page EXCEPT !.phase = "sent", !.method = "GET", !.status = 200,
                           !.emitted = GetDocument(page.document, page.targetUrl)]
  /\ UNCHANGED << cache, now, reqs, received, out, codec >>

\* POST /go from new JSDOM(html) to res.send(dom.serialize()).
RwPost ==
  /\ page.phase = "parsed"
  /\ page' = [page EXCEPT !.phase = "sent", !.method = "POST", !.status = 200,
                           !.emitted = PostDocument(page.document, page.targetUrl)]
  /\ UNCHANGED << cache, now, reqs, received, out, codec >>

NextRewrite == RwGet \/ RwPost

SpecRewrite == InitRewrite /\ [][NextRewrite]_vars

\* ------------------------------------------------------------------------
\* The client patch at work in the browser: the document a /go handler sent
\* is loaded from its proxy URL, and the scripts of the page call the
\* functions the patch replaces, or the user submits a form.
\* ------------------------------------------------------------------------

\* btoa(s): base64 of the code units of s; throws for a code unit above 255.
btoa(s) == IF \A i \in 1..Len(s) : s[i] <= 255 THEN Returned(Base64Encode(s)) ELSE Thrown

\* document.baseURI: the href of the first base element of the head, the URL
\* of the document when there is none.
BaseURI(document, documentUrl) ==
  LET bases == SelectSeq(document.head, LAMBDA el : el.tag = "base" /\ HasAttr(el, "href"))
      HrefOf(els) == IF els = << >> THEN documentUrl ELSE Head(els).attrs["href"]
  IN HrefOf(bases)

\* encode(url): btoa(new URL(url, document.baseURI).href), '' when that
\* throws.
encode(url, baseURI) ==
  LET Encoded(b) == IF b.ok THEN b.val ELSE << >>
      Of(u) == IF u.ok THEN Encoded(btoa(Href(u))) ELSE << >>
  IN Of(ParseUrl(url, ParseUrl(baseURI, NoUrl)))

\* proxy(url): '${PROXY_BASE_URL}/go?url=' + encode(url)
proxy(url, baseURI) ==
  Concat(<< PROXY_BASE_URL, Str(<< "/", "g", "o", "?", "u", "r", "l", "=" >>), encode(url, baseURI) >>)

\* The functions the patch assigns a wrapper to. window.location.assign and
\* replace are unforgeable in some browsers, where the assignment has no
\* effect: installed tells whether it had one.
Wrapped(fn, installed) ==
  \/ fn = "window.open"
  \/ fn \in {"location.assign", "location.replace"} /\ installed

\* The call fn(url, ...args) of a script of the page: the call of the
\* browser's own function it comes to. The wrapper of window.open passes the
\* other arguments on; those of location.assign and replace take the URL only.
Patched(fn, url, args, baseURI, installed) ==
  [NoCall EXCEPT !.fn = fn,
                 !.url = IF Wrapped(fn, installed) THEN proxy(url, baseURI) ELSE url,
                 !.args = IF fn \in {"location.assign", "location.replace"}
                             /\ Wrapped(fn, installed)
                          THEN << >> ELSE args]

\* The submit listener on a form whose controls serialise to params: a GET
\* form is prevented and window.location.href is set; for any other method
\* the listener does nothing and the browser submits the form to its action.
Submit(form, params, baseURI, documentUrl) ==
  LET Attr(a, default) ==
        IF HasAttr(form, a) /\ form.attrs[a] # << >> THEN form.attrs[a] ELSE default
      method == [i \in 1..Len(Attr("method", Str(<< "g", "e", "t" >>))) |-> ToLower(Attr("method", Str(<< "g", "e", "t" >>))[i])]
      FullUrl(action) ==
        Concat(<< action,
                  IF \E i \in 1..Len(action) : action[i] = Ord("?") THEN << Ord("&") >>
                  ELSE << Ord("?") >>,
                  params >>)
  IN IF method = Str(<< "g", "e", "t" >>)
     THEN [NoCall EXCEPT !.fn = "location.href", !.prevented = TRUE,
                         !.url = proxy(FullUrl(Attr("action", documentUrl)), baseURI)]
     ELSE [NoCall EXCEPT !.fn = "form.submit", !.url = Attr("action", documentUrl),
                         !.args = << method, params >>]

\* The functions a script of the page calls with a URL.
ClFunctions ==
  { "window.open", "location.assign", "location.replace", "fetch", "XMLHttpRequest.open" }

\* Their URLs and other arguments.
ClUrls == { Str(<< "/", "x" >>), Str(<< "y", "?", "q", "=", "1" >>), Str(<< "h", "t", "t", "p", ":", "/", "/", "b", "/", "z" >>), Str(<< "h", "t", "t", "p", ":", "/", "/" >>), Str(<< "/", "/", "c", "/", "w" >>) }
ClArgs == { << >>, << Str(<< "_", "b", "l", "a", "n", "k" >>) >> }

\* The forms of the documents, and what their controls serialise to.
ClForms ==
  { Element("form", ("method" :> Str(<< "g", "e", "t" >>)) @@ ("action" :> Str(<< "/", "s", "e", "a", "r", "c", "h" >>))),
    Element("form", ("action" :> Str(<< "/", "s", "?", "a", "=", "b" >>))),
    Element("form", NoAttrs),
    Element("form", ("method" :> Str(<< "P", "O", "S", "T" >>)) @@ ("action" :> Str(<< "/", "l", "o", "g", "i", "n" >>))),
    Element("form", ("method" :> Str(<< "p", "o", "s", "t" >>))) }
ClParams == { Str(<< "q", "=", "1" >>), << >> }

\* The URL the browser loaded the document from.
DocumentUrl == Proxied(page.targetUrl, PROXY_BASE_URL)

PatchRuns == \E i \in 1..Len(page.emitted.body) : page.emitted.body[i] = ClientPatch

\* A handler has sent the document of one form, and the browser has loaded it.
InitClient ==
  /\ cache = << >>
  /\ now = 0
  /\ reqs = [r \in Slots |-> Idle]
  /\ received = 0
  /\ out = Quiet
  /\ codec = CodecOff
  /\ \E m \in Methods, t \in RwTargets, form \in ClForms :
       LET document == [head |-> << >>, body |-> << form >>]
       IN page = [PageOff EXCEPT !.phase = "sent", !.method = m, !.status = 200,
                                 !.targetUrl = t, !.document = document,
                                 !.emitted = IF m = "GET" THEN GetDocument(document, t)
                                             ELSE PostDocument(document, t)]

\* A script of the page calls fn(url, ...args).
PageCalls(fn, url, args, installed) ==
  /\ page.phase = "sent"
  /\ PatchRuns
  /\ page' = [page EXCEPT !.phase = "called",
                           !.call = [NoCall EXCEPT !.fn = fn, !.url = url, !.args = args],
                           !.effect = Patched(fn, url, args, BaseURI(page.emitted, DocumentUrl),
                                              installed)]
  /\ UNCHANGED << cache, now, reqs, received, out, codec >>

\* The user submits the form of the page.
PageSubmits(params) ==
  /\ page.phase = "sent"
  /\ PatchRuns
  /\ \E i \in 1..Len(page.emitted.body) :
       /\ page.emitted.body[i].tag = "form"
       /\ page' = [page EXCEPT !.phase = "submitted",
                                !.call = [NoCall EXCEPT !.fn = "submit", !.args = << params >>],
                                !.effect = Submit(page.emitted.body[i], params,
                                                  BaseURI(page.emitted, DocumentUrl), DocumentUrl)]
  /\ UNCHANGED << cache, now, reqs, received, out, codec >>

NextClient ==
  \/ \E fn \in ClFunctions, url \in ClUrls, args \in ClArgs, installed \in BOOLEAN :
       PageCalls(fn, url, args, installed)
  \/ \E params \in ClParams : PageSubmits(params)

SpecClient == InitClient /\ [][NextClient]_vars

\* ------------------------------------------------------------------------
\* Properties
\* ------------------------------------------------------------------------

\* The step just taken was a step of a /go handler.
GoStep == out.op \in Methods

\* The key of the request the step just taken belongs to.
OutKey == KeyOf[out.encoded]

\* A GET /go stored its entry in the step just taken.
Stored == out.op = "GET" /\ out.step = "body_read"

\* C1: once an insertion (manageCacheSize, then cache.set) has completed the
\* cache holds at most MAX_CACHE_SIZE entries, so that MAX_CACHE_SIZE + 1
\* insertions under distinct keys leave MAX_CACHE_SIZE entries, the first gone.
C1_SizeAfterInsert == Stored => Len(cache) <= MAX_CACHE_SIZE

\* C2: a GET /go that finds an entry at least CACHE_TTL old deletes it and
\* goes on to the upstream; an entry is served only while younger than
\* CACHE_TTL.
C2_StaleNeverServed ==
  [][ (out'.op = "GET" /\ out'.step = "receive" /\ out'.resp.status # 400) =>
        LET key == KeyOf[out'.encoded] IN
        /\ (CacheHas(cache, key) /\ now - CacheGet(cache, key).timestamp >= CACHE_TTL) =>
             /\ ~CacheHas(cache', key)
             /\ out'.resp = NoResponse
             /\ out'.attempts = 1
             /\ reqs'[out'.slot].pc = "fetching"
        /\ out'.resp.kind = "cached" =>
             /\ CacheHas(cache, key)
             /\ now - CacheGet(cache, key).timestamp < CACHE_TTL ]_vars

\* A stale entry was found at the age of exactly CACHE_TTL and the handler
\* went on to the upstream.
C2_Witness ==
  /\ out.op = "GET" /\ out.lookup = "stale" /\ now = CACHE_TTL
  /\ reqs[out.slot].pc = "fetching"
  /\ ~CacheHas(cache, OutKey)

\* C3: no step of a POST /go handler reads or changes the cache; a POST is
\* never answered from an entry, and every POST with a valid target makes its
\* own upstream attempt.
C3_PostBypassesCache ==
  [][ out'.op = "POST" =>
        /\ cache' = cache
        /\ out'.lookup = "none"
        /\ out'.resp.kind # "cached"
        /\ (out'.step = "receive" /\ out'.resp.status # 400) =>
             (out'.attempts = 1 /\ reqs'[out'.slot].pc = "fetching") ]_vars

\* A POST was answered with the rewritten document of an upstream fetch of
\* its own while a fresh entry for the same token was in the cache.
C3_Witness ==
  /\ out.op = "POST" /\ out.step = "body_read" /\ out.resp.kind = "rewritten"
  /\ CacheHas(cache, OutKey)
  /\ now - CacheGet(cache, OutKey).timestamp < CACHE_TTL

\* C4: fetchWithRetry makes at most Retries + 1 attempts; a new attempt is
\* made only after the one before it has failed; once an attempt succeeds its
\* response is returned to the handler and no other attempt follows; when all
\* attempts fail the error is answered with 500 after exactly Retries + 1.
C4_BoundedRetry ==
  [][ /\ \A r \in Slots : Attempts(reqs'[r]) <= Retries + 1
      /\ out'.attempts <= Retries + 1
      /\ (GoStep' /\ out'.step = "retry") =>
           /\ reqs[out'.slot].pc = "delay"
           /\ out'.attempts = Attempts(reqs[out'.slot]) + 1
      /\ (GoStep' /\ out'.step = "attempt_failed" /\ out'.resp # NoResponse) =>
           /\ out'.attempts = Retries + 1
           /\ out'.resp.status = 500
           /\ out'.upstream = NoAnswer
      /\ (GoStep' /\ out'.step = "attempt_failed" /\ out'.resp = NoResponse) =>
           /\ out'.attempts < Retries + 1
           /\ reqs'[out'.slot].pc = "delay"
      /\ (GoStep' /\ out'.step = "answered") =>
           /\ out'.upstream # NoAnswer
           /\ out'.attempts = Attempts(reqs[out'.slot])
           /\ reqs'[out'.slot].pc \in {"idle", "reading"}
           /\ out'.resp.kind \in {"none", "upstream_error", "passthrough"}
      /\ \A r \in Slots : reqs[r].pc = "reading" => reqs'[r].pc \in {"reading", "idle"} ]_vars

\* The third attempt succeeded after two failures and the request was
\* answered from its response.
C4_Witness ==
  /\ GoStep /\ out.step = "answered" /\ out.attempts = Retries + 1
  /\ out.resp.kind = "passthrough" /\ out.resp.body.doc = out.upstream.doc

BadTarget(encoded) ==
  \/ encoded = << >>
  \/ ~decodeUrl(encoded).ok
  \/ ~isValidUrl(decodeUrl(encoded).val)
BadTargetOf == [e \in Tokens |-> BadTarget(e)]

\* C6: GET and POST /go answer a bad url parameter with 400 in the step that
\* receives it: the cache is neither read nor written, no upstream attempt is
\* started then or later.
C6_BadTargetRejected ==
  [][ /\ (GoStep' /\ out'.step = "receive" /\ BadTargetOf[out'.encoded]) =>
           /\ out'.resp.status = 400
           /\ out'.attempts = 0
           /\ out'.lookup = "none"
           /\ reqs'[out'.slot] = Idle
           /\ cache' = cache
      /\ \A r \in Slots : reqs'[r].pc # "idle" => ~BadTargetOf[reqs'[r].encoded] ]_vars

\* A POST whose token decodes to a javascript: URL was answered 400.
C6_Witness ==
  /\ out.op = "POST" /\ out.step = "receive" /\ out.resp.status = 400
  /\ out.resp.body.error = "Invalid target URL"
  /\ out.attempts = 0

\* C7: decodeUrl(encodeUrl(u)) returns u for every absolute http(s) URL u,
\* '%' and percent escapes included.
C7_RoundTrip ==
  (codec.given = "url" /\ codec.phase \in {"decoded", "checked"} /\ isValidUrl(codec.url))
    => codec.decoded = Returned(codec.url)

\* A token in canonical base64: groups of four characters of the standard
\* alphabet, the last group padded with at most two '='.
WellFormedBase64(t) ==
  /\ Len(t) > 0 /\ Len(t) % 4 = 0
  /\ \A i \in 1..Len(t) :
       \/ Unbase64(t[i]) >= 0 /\ t[i] \notin {Ord("-"), Ord("_")}
       \/ t[i] = PadChar /\ i >= Len(t) - 1 /\ (i = Len(t) - 1 => t[Len(t)] = PadChar)

\* The string is a relative or scheme-relative reference, or its scheme is
\* not http or https.
NotHttpTarget(s) ==
  SchemeEnd(UrlInput(s)) = 0 \/ SchemeOf(UrlInput(s)) \notin {HttpScheme, HttpsScheme}

\* C8: decoding rejects with 400 every token that is not well-formed base64,
\* and every token whose decoded string is relative, scheme-relative or of a
\* scheme other than http and https.
C8_DecodeRejects ==
  (codec.phase = "checked"
     /\ (~WellFormedBase64(codec.token) \/ ~codec.decoded.ok \/ NotHttpTarget(codec.decoded.val)))
    => codec.status = 400

\* C9: for one cache key at most one GET /go handler has an upstream fetch in
\* flight.
C9_SingleFlight ==
  \A r1, r2 \in Slots :
    (r1 # r2 /\ reqs[r1].method = "GET" /\ reqs[r2].method = "GET"
       /\ reqs[r1].encoded = reqs[r2].encoded)
      => ~(reqs[r1].pc = "fetching" /\ reqs[r2].pc = "fetching")

\* C10: a GET /go that finds a fresh entry answers in the same step, without
\* an upstream attempt, with the headers and body of the entry; and the entry
\* a miss stores holds the headers and body that miss sends.
C10_HitServesEntry ==
  [][ /\ (out'.op = "GET" /\ out'.step = "receive" /\ out'.resp.status # 400) =>
           LET key == KeyOf[out'.encoded] IN
           (CacheHas(cache, key) /\ now - CacheGet(cache, key).timestamp < CACHE_TTL) =>
             /\ out'.lookup = "hit"
             /\ out'.attempts = 0
             /\ reqs'[out'.slot] = Idle
             /\ cache' = cache
             /\ out'.resp.status = 200
             /\ out'.resp.headers = CacheGet(cache, key).headers
             /\ out'.resp.body = CacheGet(cache, key).body
      /\ out'.resp.kind = "cached" => out'.lookup = "hit"
      /\ Stored' =>
           LET key == KeyOf[out'.encoded] IN
           /\ CacheHas(cache', key)
           /\ CacheGet(cache', key).headers = out'.resp.headers
           /\ CacheGet(cache', key).body = out'.resp.body ]_vars

\* A hit served the second version of a document, as the miss before it had
\* stored it.
C10_Witness ==
  /\ out.op = "GET" /\ out.lookup = "hit" /\ out.resp.kind = "cached"
  /\ out.resp.body = RewrittenBody(UrlA, "doc2")
  /\ CacheGet(cache, OutKey).body = out.resp.body

\* decodeUrl of the tokens of a run.
DecodedOf == [e \in Tokens |-> decodeUrl(e)]

\* The entry under key k is new in c2, or differs from the one c1 holds.
Written(c1, c2, k) ==
  CacheHas(c2, k) /\ (~CacheHas(c1, k) \/ CacheGet(c1, k) # CacheGet(c2, k))

\* Keys of the entries of c.
KeysOf(c) == { c[i].key : i \in 1..Len(c) }

\* C11: an entry is created or updated only by a GET /go whose upstream
\* answer was 2xx with an HTML or XHTML content type; an answer of any other
\* content type is passed through as it came and stores nothing; every entry
\* is a rewritten document under 'get:' + token with the decoded token as its
\* targetUrl.
C11_OnlyHtmlGetStores ==
  [][ /\ \A k \in KeysOf(cache') :
           Written(cache, cache', k) =>
             /\ out'.op = "GET" /\ out'.step = "body_read"
             /\ out'.upstream.status \in 200..299
             /\ out'.upstream.ctype \in HtmlTypes
             /\ k = KeyOf[out'.encoded]
      /\ (GoStep' /\ out'.step = "answered" /\ out'.upstream.status \in 200..299
            /\ out'.upstream.ctype \notin HtmlTypes) =>
           /\ cache' = cache
           /\ out'.resp.kind = "passthrough"
           /\ out'.resp.body = StreamBody(out'.upstream.doc)
           /\ reqs'[out'.slot] = Idle
      /\ \A i \in 1..Len(cache') :
           /\ cache'[i].body.kind = "html"
           /\ cache'[i].body.base = cache'[i].targetUrl
           /\ \E e \in Tokens :
                /\ cache'[i].key = KeyOf[e]
                /\ e # << >> /\ DecodedOf[e] = Returned(cache'[i].targetUrl) ]_vars

\* A GET /go passed an image through while the cache held an entry, none of
\* them for the image.
C11_Witness ==
  /\ out.op = "GET" /\ out.step = "answered" /\ out.upstream.ctype = "image/png"
  /\ out.resp.kind = "passthrough"
  /\ cache # << >> /\ ~CacheHas(cache, OutKey)

\* C12: eviction follows insertion order, not access order: a hit leaves the
\* order of the entries as it was, and the entry an insertion evicts is the
\* first of that order.
C12_InsertionOrderEviction ==
  [][ /\ (out'.op = "GET" /\ out'.lookup = "hit") => cache' = cache
      /\ Stored' =>
           /\ \A k \in KeysOf(cache) \ {KeyOf[out'.encoded]} :
                ~CacheHas(cache', k) => (k = cache[1].key /\ Len(cache) > MAX_CACHE_SIZE)
           /\ \A i, j \in 1..Len(cache) :
                (i < j /\ CacheHas(cache', cache[i].key) /\ CacheHas(cache', cache[j].key)) =>
                  \E m, n \in 1..Len(cache') :
                    m < n /\ cache'[m].key = cache[i].key /\ cache'[n].key = cache[j].key ]_vars

\* A hit served the first-inserted entry of a cache that is over its capacity:
\* the entry is still the first, the one the next insertion evicts.
C12_Witness ==
  /\ out.op = "GET" /\ out.lookup = "hit"
  /\ Len(cache) > MAX_CACHE_SIZE
  /\ cache[1].key = OutKey
  /\ CacheGet(cache, OutKey).timestamp < cache[Len(cache)].timestamp

\* C13: while an entry is younger than CACHE_TTL no step of a GET /go handler
\* replaces it, changes its timestamp or body, or deletes it, however the
\* handlers interleave; the one exception is the capacity eviction of the
\* first entry by an insertion.
C13_EntryReadOnlyUntilTtl ==
  [][ out'.op = "GET" =>
        \A i \in 1..Len(cache) :
          now - cache[i].timestamp < CACHE_TTL =>
            \/ /\ CacheHas(cache', cache[i].key)
               /\ CacheGet(cache', cache[i].key) = cache[i]
            \/ /\ ~CacheHas(cache', cache[i].key)
               /\ Stored' /\ i = 1 /\ Len(cache) > MAX_CACHE_SIZE ]_vars

\* C14: a non-2xx answer to POST /go reaches the client with the upstream's
\* status, and not as a rewritten document.
C14_PostErrorPropagated ==
  [][ (out'.op = "POST" /\ out'.upstream # NoAnswer
         /\ out'.upstream.status \notin 200..299
         /\ out'.resp.kind \in {"upstream_error", "passthrough", "rewritten"}) =>
        /\ out'.resp.status = out'.upstream.status
        /\ out'.resp.kind # "rewritten" ]_vars

\* C15: an insertion takes one step, in which no other handler moves: it
\* evicts at most one entry, the first, and only from a cache over its
\* capacity, then sets its own entry; every other entry stays as it was.
C15_AtomicInsertion ==
  [][ Stored' =>
        LET key == KeyOf[out'.encoded]
        IN /\ out'.previousSize = Len(cache) /\ out'.currentSize = Len(cache')
           /\ Len(cache') >= Len(cache) - 1
           /\ CacheHas(cache', key)
           /\ CacheGet(cache', key).timestamp = now
           /\ \E evicted \in {cache, IF cache = << >> THEN cache ELSE Tail(cache)} :
                /\ evicted # cache => Len(cache) > MAX_CACHE_SIZE
                /\ \A k \in KeysOf(evicted) \ {key} :
                     CacheHas(cache', k) /\ CacheGet(cache', k) = CacheGet(evicted, k)
                /\ KeysOf(cache') = KeysOf(evicted) \cup {key}
           /\ \A r \in Slots \ {out'.slot} : reqs'[r] = reqs[r] ]_vars

\* An insertion into a cache over its capacity evicted one entry and set its
\* own: the cache is as large as it was.
C15_Witness ==
  /\ Stored
  /\ out.previousSize > MAX_CACHE_SIZE
  /\ out.currentSize = out.previousSize
  /\ CacheHas(cache, OutKey)

\* The string is an absolute URL of the http or https scheme.
HttpUrl(u) == SchemeEnd(u) > 0 /\ SchemeOf(u) \in {HttpScheme, HttpsScheme}

\* The attribute pass looks at the value: it is not empty and starts with
\* none of '#', 'data:', 'javascript:', 'mailto:', 'blob:'.
Considered(value) ==
  value # << >> /\ \A prefix \in SkippedPrefixes : ~StartsWith(value, prefix)

\* The handler has sent the document.
Sent == page.phase = "sent"

\* C16: in the emitted document every URL attribute whose value is considered
\* and resolves against the target URL to an http(s) URL a (a reference that
\* starts with '//' taking the target's scheme) reads PROXY_BASE_URL +
\* '/go?url=' + encodeUrl(a); one that resolves to a URL of another scheme
\* reads as it did.
C16_AttributesProxied ==
  Sent =>
    \A i \in 1..Len(page.document.body) :
      \A a \in urlAttributes \cap DOMAIN page.document.body[i].attrs :
        LET value == page.document.body[i].attrs[a]
            resolved == AbsoluteUrl(value, page.targetUrl)
            emitted == page.emitted.body[i]
        IN (Considered(value) /\ resolved.ok) =>
             /\ HasAttr(emitted, a)
             /\ emitted.attrs[a] = IF HttpUrl(resolved.val)
                                   THEN Proxied(resolved.val, PROXY_BASE_URL)
                                   ELSE value

\* The candidates of a srcset: the URL and the descriptor of each piece
\* between commas.
Candidates(srcset) ==
  LET parts == SplitOn(srcset, Ord(","))
  IN [i \in 1..Len(parts) |->
        LET words == Words(JsTrim(parts[i]))
        IN [url |-> words[1], descriptor |-> IF Len(words) >= 2 THEN words[2] ELSE << >>]]

\* C17: a srcset of n candidates whose URLs resolve to http(s) URLs is emitted
\* with n candidates joined by ', ': the i-th is PROXY_BASE_URL + '/go?url=' +
\* encodeUrl of the absolute URL of the i-th original candidate, then one
\* space and the i-th descriptor when the candidate had one.
C17_SrcsetCandidates ==
  Sent =>
    \A i \in 1..Len(page.document.body) :
      (HasAttr(page.document.body[i], "srcset")
         /\ page.document.body[i].attrs["srcset"] # << >>) =>
        LET candidates == Candidates(page.document.body[i].attrs["srcset"])
            Absolute(c) == AbsoluteUrl(c.url, page.targetUrl)
            emitted == page.emitted.body[i]
        IN (\A n \in 1..Len(candidates) :
              /\ candidates[n].url # << >>
              /\ Absolute(candidates[n]).ok
              /\ HttpUrl(Absolute(candidates[n]).val)) =>
             /\ HasAttr(emitted, "srcset")
             /\ Len(SplitOn(emitted.attrs["srcset"], Ord(","))) = Len(candidates)
             /\ emitted.attrs["srcset"] =
                  Join([n \in 1..Len(candidates) |->
                          Proxied(Absolute(candidates[n]).val, PROXY_BASE_URL)
                            \o (IF candidates[n].descriptor = << >> THEN << >>
                                ELSE << 32 >> \o candidates[n].descriptor)],
                       << Ord(","), 32 >>)

\* C18: the first child of the head of the emitted document is a base element
\* whose href is the target URL itself.
C18_BaseIsTarget ==
  Sent =>
    /\ page.emitted.head # << >>
    /\ page.emitted.head[1].tag = "base"
    /\ HasAttr(page.emitted.head[1], "href")
    /\ page.emitted.head[1].attrs["href"] = page.targetUrl

\* C19: in the document GET /go emits, every script whose src resolves to an
\* http(s) URL a is replaced by an inline script that loads PROXY_BASE_URL +
\* '/go?url=' + encodeUrl(a), and no script keeps a src.
C19_ScriptsInlined ==
  (Sent /\ page.method = "GET") =>
    \A i \in 1..Len(page.document.body) :
      LET el == page.document.body[i]
          resolved == AbsoluteUrl(el.attrs["src"], page.targetUrl)
      IN (el.tag = "script" /\ HasAttr(el, "src") /\ el.attrs["src"] # << >>
            /\ resolved.ok /\ HttpUrl(resolved.val)) =>
           page.emitted.body[i] = LoaderScript(Proxied(resolved.val, PROXY_BASE_URL))

\* C20: a reference whose resolution throws, or gives a URL of a scheme other
\* than http and https, is left as it was; the other references of the
\* document are rewritten all the same, and the request is answered with the
\* document.
C20_BestEffort ==
  Sent =>
    /\ page.status = 200
    /\ Len(page.emitted.body) = Len(page.document.body) + 1
    /\ \A i \in 1..Len(page.document.body) :
         LET el == page.document.body[i]
             emitted == page.emitted.body[i]
         IN /\ \A a \in (urlAttributes \ {"srcset"}) \cap DOMAIN el.attrs :
                 LET resolved == AbsoluteUrl(el.attrs[a], page.targetUrl)
                 IN Considered(el.attrs[a]) =>
                      IF resolved.ok /\ HttpUrl(resolved.val)
                      THEN emitted # el
                      ELSE HasAttr(emitted, a) /\ emitted.attrs[a] = el.attrs[a]
            /\ (el.tag = "meta" /\ HasAttr(el, "content") /\ HttpUrl(el.attrs["content"])) =>
                 IF AbsoluteUrl(el.attrs["content"], page.targetUrl).ok
                 THEN emitted # el
                 ELSE emitted = el

\* C21: POST /clear-cache leaves the cache empty and answers with previousSize
\* equal to the size of the cache just before the call and currentSize equal
\* to 0; GET /health answers with the size of the cache and leaves the cache
\* as it was.
C21_ClearAndHealth ==
  [][ /\ out'.op = "clear-cache" =>
           /\ cache' = << >>
           /\ out'.previousSize = Len(cache)
           /\ out'.currentSize = 0
      /\ out'.op = "health" =>
           /\ cache' = cache
           /\ out'.currentSize = Len(cache) ]_vars

\* A cache that held an entry has just been cleared.
C21_Witness == out.op = "clear-cache" /\ out.previousSize = 1 /\ cache = << >>

\* C22: the token of encodeUrl can be put as it is in a query string. For
\* every absolute http(s) URL u, the token GET /go reads from the reference
\* proxyBaseUrl + '/go?url=' + encodeUrl(u), its query string parsed by the
\* form-urlencoded rules, decodes to u.
C22_TokenEmbeddable ==
  (codec.given = "reference" /\ codec.phase \in {"decoded", "checked"} /\ isValidUrl(codec.url))
    => codec.decoded = Returned(codec.url)

\* The reference the patch is to send a URL to: proxyBaseUrl + '/go?url=' +
\* the base64 of the absolute URL.
ThroughProxy(absoluteUrl) ==
  Concat(<< PROXY_BASE_URL, Str(<< "/", "g", "o", "?", "u", "r", "l", "=" >>), Base64Encode(absoluteUrl) >>)

\* C23: the client patch wraps window.open, location.assign,
\* location.replace, fetch and XMLHttpRequest.open: a call of any of the five
\* with URL x comes to a call of the original function with proxyBaseUrl +
\* '/go?url=' + encode(absolute x) and the other arguments as they were.
C23_ClientPatchWraps ==
  page.phase = "called" =>
    LET absolute == ParseUrl(page.call.url,
                             ParseUrl(BaseURI(page.emitted, DocumentUrl), NoUrl))
    IN (page.call.fn \in ClFunctions /\ absolute.ok) =>
         /\ page.effect.fn = page.call.fn
         /\ page.effect.url = ThroughProxy(Href(absolute))
         /\ page.effect.args = page.call.args

\* C24: every form submission is intercepted. A GET form is prevented and the
\* location is set to proxyBaseUrl + '/go?url=' + encode(action with the form
\* parameters appended); a form of another method is not submitted through
\* the proxy and the user is told that it is not supported.
C24_FormsIntercepted ==
  page.phase = "submitted" =>
    LET form == page.document.body[1]
        sent == page.emitted.body[1]
        params == page.call.args[1]
        isGet == ~HasAttr(form, "method") \/ form.attrs["method"] \in { << >>, Str(<< "g", "e", "t" >>), Str(<< "G", "E", "T" >>) }
        action == IF HasAttr(sent, "action") /\ sent.attrs["action"] # << >>
                  THEN sent.attrs["action"] ELSE DocumentUrl
        full == Concat(<< action,
                          IF \E i \in 1..Len(action) : action[i] = Ord("?")
                          THEN << Ord("&") >> ELSE << Ord("?") >>,
                          params >>)
        absolute == ParseUrl(full, ParseUrl(BaseURI(page.emitted, DocumentUrl), NoUrl))
    IN IF isGet
       THEN /\ page.effect.prevented
            /\ page.effect.fn = "location.href"
            /\ absolute.ok => page.effect.url = ThroughProxy(Href(absolute))
       ELSE /\ page.effect.alerted
            /\ ~(page.effect.fn = "form.submit" /\ StartsWith(page.effect.url, PROXY_BASE_URL))

\* C28: for the same target URL and the same upstream document, POST /go
\* sends the document a GET /go cache miss sends: policy removed, base tag,
\* rewritten attributes, replaced scripts and client patch.
C28_PostLikeGetMiss ==
  (Sent /\ page.method = "POST") =>
    page.emitted = GetDocument(page.document, page.targetUrl)

\* C30: whenever an insertion of GET /go evicts, the entry removed is the one
\* with the smallest timestamp of the cache (the key order agrees with the
\* timestamps), under any interleaving of GET /go handlers; and an insertion
\* under a key that is present removes no entry of another key.
C30_EvictsOldest ==
  [][ Stored' =>
        LET key == KeyOf[out'.encoded]
            gone == { i \in 1..Len(cache) : ~CacheHas(cache', cache[i].key) }
        IN /\ \A i \in gone : \A j \in 1..Len(cache) :
                cache[i].timestamp <= cache[j].timestamp
           /\ \A i, j \in 1..Len(cache') :
                i < j => cache'[i].timestamp <= cache'[j].timestamp
           /\ CacheHas(cache, key) => gone = {} ]_vars

\* C29: in every reachable state, under any interleaving of the GET /go,
\* POST /go and POST /clear-cache handlers, the cache holds at most
\* MAX_CACHE_SIZE + 1 entries.
C29_SizeBound == Len(cache) <= MAX_CACHE_SIZE + 1

\* The cache holds one entry more than its capacity while a handler that
\* will insert is suspended.
C29_Witness ==
  /\ Len(cache) = MAX_CACHE_SIZE + 1
  /\ \E r \in Slots : reqs[r].method = "GET" /\ reqs[r].pc = "reading"

\* C25: every attempt of fetchWithRetry, the first and every retry, of the GET
\* and of the POST handler, carries exactly one User-Agent header: the
\* caller's value when options.headers has one, the built-in value otherwise.
C25_OneUserAgent ==
  \A r \in Slots :
    reqs[r].pc = "fetching" =>
      LET supplied == UserAgents(HeaderLines(reqs[r].headers))
      IN UserAgents(reqs[r].request) =
           IF supplied = << >> THEN << BrowserAgent >> ELSE supplied

\* C27: within one fetchWithRetry call the attempts do not overlap: attempt
\* n + 1 starts only from the delay that follows the rejection of attempt n,
\* when that delay elapses; a pending abort timer belongs to the attempt in
\* flight, so it aborts no other attempt; and once the call has returned or
\* thrown none of its timers is pending.
C27_TimersScoped ==
  [][ \A r \in Slots :
        LET before == reqs[r]
            rec == reqs'[r]
        IN /\ Cardinality(rec.inflight) <= 1
           /\ rec.timers \subseteq rec.inflight
           /\ rec.pc \notin {"fetching", "delay"} =>
                rec.inflight = {} /\ rec.timers = {} /\ ~rec.waiting
           /\ (rec.inflight # {} /\ rec.inflight # before.inflight) =>
                \/ before.pc = "idle" /\ rec.inflight = {1}
                \/ /\ before.pc = "delay" /\ before.waiting
                   /\ before.inflight = {} /\ before.timers = {}
                   /\ rec.inflight = {Attempts(before) + 1}
           /\ (out'.step = "timed_out" /\ out'.slot = r) =>
                (before.inflight \ rec.inflight) \subseteq (before.timers \ rec.timers) ]_vars

\* The second attempt of a call is in flight with its own abort timer pending.
C27_Witness ==
  /\ out.step = "retry"
  /\ reqs[out.slot].pc = "fetching"
  /\ reqs[out.slot].inflight = {2}
  /\ reqs[out.slot].timers = {2}

\* C26: every GET /go and POST /go request eventually sends exactly one
\* response and never two, given that every upstream attempt resolves, rejects
\* or is aborted by its timeout; the retries counter strictly decreases from
\* one attempt to the next; and a step of one request, an error included,
\* leaves the handlers of the other requests as they are.
C26_EveryRequestAnswered ==
  /\ \A r \in Slots : (reqs[r].pc # "idle") ~> (reqs[r].pc = "idle")
  /\ [][ /\ \A r \in Slots :
              (reqs[r].pc = "delay" /\ reqs'[r].pc = "fetching") =>
                reqs'[r].retries < reqs[r].retries
         /\ (out'.op \in Methods /\ out'.resp # NoResponse) =>
              reqs'[out'.slot].pc = "idle"
         /\ \A r \in Slots : (out'.op \in Methods /\ r # out'.slot) => reqs'[r] = reqs[r] ]_vars

\* C33: after POST /clear-cache has responded the cache stays empty until a
\* GET /go received after the clear stores an entry: a GET /go that was
\* running when the cache was cleared inserts no entry afterwards.
C33_NoInsertAfterClear ==
  [][ /\ Stored' => ~reqs[out'.slot].cleared
      /\ (cache = << >> /\ cache' # << >>) => ~reqs[out'.slot].cleared ]_vars

\* C31: a step of a GET /go handler other than its store (the receipt with
\* its lookup, a failed attempt, a retry, an upstream answer that is sent as
\* an error or passed through, a processing failure) leaves the cache as it
\* is, except that the lookup deletes the stale entry under the request's own
\* key; the entries under other keys stay as they are, in their order. So a
\* GET /go that ends in an error response or in a passthrough has added,
\* updated and evicted nothing.
C31_ErrorLeavesCache ==
  [][ (out'.op = "GET" /\ ~Stored') =>
        \/ cache' = cache
        \/ /\ out'.step = "receive"
           /\ out'.lookup = "stale"
           /\ \E i \in 1..Len(cache) :
                /\ cache[i].key = KeyOf[out'.encoded]
                /\ now - cache[i].timestamp >= CACHE_TTL
           /\ cache' = SelectSeq(cache, LAMBDA e : e.key # KeyOf[out'.encoded]) ]_vars

\* The third GET /go has found its entry stale, deleted it and ended in a 500;
\* the entry under the other key is still there.
C31_Witness ==
  /\ out.op = "GET"
  /\ out.resp.status = 500
  /\ received = 3
  /\ Len(cache) = 1
  /\ cache[1].key # KeyOf[out.encoded]

\* The start of every reference the rewriter writes.
ProxyReference == Concat(<< PROXY_BASE_URL, Str(<< "/", "g", "o", "?", "u", "r", "l", "=" >>) >>)

\* The tokens of the proxy references that occur in a string: what follows
\* PROXY_BASE_URL + '/go?url=' as far as the characters of base64 go.
TokensIn(s) ==
  LET Base64Chars == (65..90) \cup (97..122) \cup (48..57) \cup {43, 47, 61}
      n == Len(ProxyReference)
  IN { UpTo(Drop(s, q + n - 1), (0..255) \ Base64Chars) :
         q \in { i \in 1..(Len(s) - n + 1) : SubSeq(s, i, i + n - 1) = ProxyReference } }

\* The strings of a document that hold references: the attribute values, and
\* the URL an inline loader script loads.
StringsOf(document) ==
  LET Of(el) == { el.attrs[a] : a \in DOMAIN el.attrs }
                  \cup (IF el.text.kind = "loader" THEN { el.text.url } ELSE {})
  IN UNION ({ Of(document.head[i]) : i \in 1..Len(document.head) }
              \cup { Of(document.body[i]) : i \in 1..Len(document.body) })

\* The absolute URLs of the resources a fetched document refers to, and of the
\* document itself: URL attributes, srcset candidates, url() of inline styles
\* and meta content, resolved against the target URL.
ResourcesOf(document, targetUrl) ==
  LET RECURSIVE StyleUrls(_)
      StyleUrls(style) ==
        IF style = << >> THEN {}
        ELSE IF UrlMatch(style).len = 0 THEN StyleUrls(Tail(style))
        ELSE { UrlMatch(style).url } \cup StyleUrls(Drop(style, UrlMatch(style).len))
      SrcsetUrls(srcset) ==
        { JsTrim(Candidates(srcset)[n].url) : n \in 1..Len(Candidates(srcset)) }
      Of(el) ==
        { el.attrs[a] : a \in urlAttributes \cap DOMAIN el.attrs }
          \cup (IF HasAttr(el, "srcset") THEN SrcsetUrls(el.attrs["srcset"]) ELSE {})
          \cup (IF HasAttr(el, "style") THEN StyleUrls(el.attrs["style"]) ELSE {})
          \cup (IF el.tag = "meta" /\ HasAttr(el, "content") THEN { el.attrs["content"] } ELSE {})
      references ==
        UNION ({ Of(document.head[i]) : i \in 1..Len(document.head) }
                 \cup { Of(document.body[i]) : i \in 1..Len(document.body) })
  IN { targetUrl }
       \cup { AbsoluteUrl(v, targetUrl).val : v \in { w \in references : AbsoluteUrl(w, targetUrl).ok } }

\* C32: for a fetched document none of whose references point at the proxy,
\* the token of every proxy reference in the emitted document (URL attribute,
\* base href, srcset candidate, url() of an inline style, meta content, script
\* replacement) decodes to the absolute URL of a resource of the fetched
\* document, and never to a URL that starts with PROXY_BASE_URL + '/go?url='.
C32_EncodedOnce ==
  (Sent /\ \A s \in StringsOf(page.document) : TokensIn(s) = {}) =>
    \A s \in StringsOf(page.emitted) :
      \A token \in TokensIn(s) :
        /\ decodeUrl(token).ok
        /\ ~StartsWith(decodeUrl(token).val, ProxyReference)
        /\ decodeUrl(token).val \in ResourcesOf(page.document, page.targetUrl)

====
